---- MODULE Spec2Model ----
(***************************************************************************)
(* A model of the chain_cred dApp: the FileRegistry ledger                 *)
(* (contracts/FileRegistry.sol) and the multi-gateway download loop of the *)
(* content store client (src/ipfs/ipfsClient.js).                          *)
(***************************************************************************)
EXTENDS Integers, Sequences, FiniteSets, TLC

(***************************************************************************)
(* Bounds of the model.                                                    *)
(***************************************************************************)
\* largest number of file records held by the whole ledger
MaxFiles == 3
\* largest block timestamp
MaxTime == 3

(***************************************************************************)
(* Strings.  A Solidity string is a UTF-8 byte array.  The model holds a   *)
(* string as n repetitions of one character; the character "e2" stands for *)
(* a two-byte character such as U+00E9.                                    *)
(***************************************************************************)
Str(c, n) == [ch |-> IF n = 0 THEN "a" ELSE c, n |-> n]

EmptyStr == Str("a", 0)

\* number of characters of a string
CharLen(s) == s.n

Utf8Width(c) == IF c = "e2" THEN 2 ELSE 1

\* bytes(s).length
BytesLen(s) == s.n * Utf8Width(s.ch)

\* the limit of validUserId
MaxUserIdLen == 50

\* the handles callers pass: "", "a", 50 x "a", 51 x "a", 26 x U+00E9
UserIdInputs ==
    { EmptyStr, Str("a", 1), Str("a", MaxUserIdLen), Str("a", MaxUserIdLen + 1),
      Str("e2", (MaxUserIdLen \div 2) + 1) }

CidInputs == { EmptyStr, Str("Q", 1) }

NameInputs == { EmptyStr, Str("f", 1) }

(***************************************************************************)
(* Addresses.                                                              *)
(***************************************************************************)
ZeroAddress == "0x0"

\* the accounts that send transactions (msg.sender is never address(0))
Wallets == { "A", "B" }

Addresses == Wallets \cup { ZeroAddress }

VARIABLES
    userIds,          \* mapping(address => string)
    userFiles,        \* mapping(string => File[])
    userIdToWallet,   \* mapping(string => address)
    blockTimestamp,   \* block.timestamp of the block being built
    tx,               \* the transaction just executed, NoTx between transactions
    status,           \* "ok", or the revert reason of that transaction
    logs,             \* the events emitted by that transaction
    pre,              \* the contract storage before that transaction
    ret,              \* the value returned by that call, NoRet for a transaction
    dl,               \* the state of a downloadFromIpfs call
    up,               \* the state of an uploadToIpfs call
    cc,               \* the chain client, the registry client and the wallet
    ui,               \* the dashboards: upload form, file list rows, valuator search
    au,               \* wallet authentication: authState, its operations, the listeners
    fs                \* the dashboards of one user ID over the ledger: lists and writes

ledgerVars == <<userIds, userFiles, userIdToWallet, blockTimestamp, tx, status, logs, pre, ret>>

vars == <<userIds, userFiles, userIdToWallet, blockTimestamp, tx, status, logs, pre, ret,
          dl, up, cc, ui, au, fs>>

\* struct File
File(cid, name, timestamp) == [cid |-> cid, name |-> name, timestamp |-> timestamp]

\* the contract storage as one value
Storage == [userIds |-> userIds, userFiles |-> userFiles, userIdToWallet |-> userIdToWallet]

TotalFiles ==
    LET RECURSIVE Sum(_)
        Sum(S) == IF S = {} THEN 0
                  ELSE LET h == CHOOSE x \in S : TRUE
                       IN Len(userFiles[h]) + Sum(S \ {h})
    IN Sum(UserIdInputs)

(***************************************************************************)
(* Revert reasons of the contract.                                         *)
(***************************************************************************)
ErrNotAuthorized == "Not authorized: You don't own this user ID"
ErrEmptyUserId == "User ID cannot be empty"
ErrUserIdTooLong == "User ID too long (max 50 chars)"
ErrAlreadyRegistered == "Already registered: This wallet already has a user ID"
ErrUserIdTaken == "User ID taken: This ID is already registered"
ErrEmptyCid == "CID cannot be empty"
ErrEmptyName == "File name cannot be empty"
ErrInvalidIndex == "Invalid index: File does not exist"

NoTx == [op |-> "none", sender |-> ZeroAddress, userId |-> EmptyStr,
         cid |-> EmptyStr, name |-> EmptyStr, index |-> 0, timestamp |-> 0,
         wallet |-> ZeroAddress]

\* a transaction returns nothing
NoRet == [type |-> "none", value |-> 0, repeated |-> FALSE]

\* a call: msg.sender, the arguments, and the block.timestamp it runs at
Tx(op, sender, userId, cid, name, index) ==
    [op |-> op, sender |-> sender, userId |-> userId, cid |-> cid, name |-> name,
     index |-> index, timestamp |-> blockTimestamp, wallet |-> ZeroAddress]

\* a failed require: the transaction reverts, storage is untouched, nothing is logged
Revert(reason) ==
    /\ status' = reason
    /\ logs' = <<>>
    /\ UNCHANGED <<userIds, userFiles, userIdToWallet>>

\* onlyOwner that accepts any registered caller
onlyOwner_AnyRegistered(sender, userId) == BytesLen(userIds[sender]) > 0

\* modifier onlyOwner: keccak256(bytes(userIds[msg.sender])) == keccak256(bytes(userId))
onlyOwner(sender, userId) == userIds[sender] = userId

\* validUserId with the upper bound off by one
validUserId_StrictBound(userId) ==
    IF ~(BytesLen(userId) > 0) THEN ErrEmptyUserId
    ELSE IF ~(BytesLen(userId) < MaxUserIdLen) THEN ErrUserIdTooLong
    ELSE "ok"

\* modifier validUserId: the revert reason, or "ok"
validUserId(userId) ==
    IF ~(BytesLen(userId) > 0) THEN ErrEmptyUserId
    ELSE IF ~(BytesLen(userId) <= MaxUserIdLen) THEN ErrUserIdTooLong
    ELSE "ok"

(***************************************************************************)
(* Views.                                                                  *)
(***************************************************************************)
getFiles(userId) == userFiles[userId]

getFileCount(userId) == Len(userFiles[userId])

getUserId(wallet) == userIds[wallet]

getWalletByUserId(userId) == userIdToWallet[userId]

isUserIdAvailable(userId) == userIdToWallet[userId] = ZeroAddress

isWalletRegistered(wallet) == BytesLen(userIds[wallet]) > 0

(***************************************************************************)
(* Transactions.                                                           *)
(***************************************************************************)
\* registerUser without the "User ID taken" check
registerUser_NoTakenCheck(sender, userId) ==
    /\ tx.op = "none"
    /\ tx' = Tx("registerUser", sender, userId, EmptyStr, EmptyStr, 0)
    /\ pre' = Storage
    /\ ret' = NoRet
    /\ UNCHANGED <<blockTimestamp, dl, up, ui>>
    /\ IF validUserId(userId) # "ok" THEN Revert(validUserId(userId))
       ELSE IF ~(BytesLen(userIds[sender]) = 0) THEN Revert(ErrAlreadyRegistered)
       ELSE /\ userIds' = [userIds EXCEPT ![sender] = userId]
            /\ userIdToWallet' = [userIdToWallet EXCEPT ![userId] = sender]
            /\ UNCHANGED userFiles
            /\ status' = "ok"
            /\ logs' = << [event |-> "UserRegistered", wallet |-> sender, userId |-> userId] >>

\* registerUser without the "Already registered" check
registerUser_NoRegisteredCheck(sender, userId) ==
    /\ tx.op = "none"
    /\ tx' = Tx("registerUser", sender, userId, EmptyStr, EmptyStr, 0)
    /\ pre' = Storage
    /\ ret' = NoRet
    /\ UNCHANGED <<blockTimestamp, dl, up, ui>>
    /\ IF validUserId(userId) # "ok" THEN Revert(validUserId(userId))
       ELSE IF ~(userIdToWallet[userId] = ZeroAddress) THEN Revert(ErrUserIdTaken)
       ELSE /\ userIds' = [userIds EXCEPT ![sender] = userId]
            /\ userIdToWallet' = [userIdToWallet EXCEPT ![userId] = sender]
            /\ UNCHANGED userFiles
            /\ status' = "ok"
            /\ logs' = << [event |-> "UserRegistered", wallet |-> sender, userId |-> userId] >>

registerUser(sender, userId) ==
    /\ tx.op = "none"
    /\ tx' = Tx("registerUser", sender, userId, EmptyStr, EmptyStr, 0)
    /\ pre' = Storage
    /\ ret' = NoRet
    /\ UNCHANGED <<blockTimestamp, dl, up, ui>>
    /\ IF validUserId(userId) # "ok" THEN Revert(validUserId(userId))
       ELSE IF ~(BytesLen(userIds[sender]) = 0) THEN Revert(ErrAlreadyRegistered)
       ELSE IF ~(userIdToWallet[userId] = ZeroAddress) THEN Revert(ErrUserIdTaken)
       ELSE /\ userIds' = [userIds EXCEPT ![sender] = userId]
            /\ userIdToWallet' = [userIdToWallet EXCEPT ![userId] = sender]
            /\ UNCHANGED userFiles
            /\ status' = "ok"
            /\ logs' = << [event |-> "UserRegistered", wallet |-> sender, userId |-> userId] >>

\* push that inserts the record at the front of the array
Push_Front(files, file) == <<file>> \o files

\* userFiles[userId].push(file)
Push(files, file) == Append(files, file)

\* uploadFile without the "File name cannot be empty" check
uploadFile_NoNameCheck(sender, userId, cid, name) ==
    /\ tx.op = "none"
    /\ tx' = Tx("uploadFile", sender, userId, cid, name, 0)
    /\ pre' = Storage
    /\ ret' = NoRet
    /\ UNCHANGED <<blockTimestamp, dl, up, ui>>
    /\ IF ~onlyOwner(sender, userId) THEN Revert(ErrNotAuthorized)
       ELSE IF ~(BytesLen(cid) > 0) THEN Revert(ErrEmptyCid)
       ELSE /\ TotalFiles < MaxFiles
            /\ userFiles' = [userFiles EXCEPT
                   ![userId] = Push(@, File(cid, name, blockTimestamp))]
            /\ UNCHANGED <<userIds, userIdToWallet>>
            /\ status' = "ok"
            /\ logs' = << [event |-> "FileUploaded", owner |-> sender, userId |-> userId,
                           cid |-> cid, name |-> name] >>

uploadFile(sender, userId, cid, name) ==
    /\ tx.op = "none"
    /\ tx' = Tx("uploadFile", sender, userId, cid, name, 0)
    /\ pre' = Storage
    /\ ret' = NoRet
    /\ UNCHANGED <<blockTimestamp, dl, up, ui>>
    /\ IF ~onlyOwner(sender, userId) THEN Revert(ErrNotAuthorized)
       ELSE IF ~(BytesLen(cid) > 0) THEN Revert(ErrEmptyCid)
       ELSE IF ~(BytesLen(name) > 0) THEN Revert(ErrEmptyName)
       ELSE /\ TotalFiles < MaxFiles
            /\ userFiles' = [userFiles EXCEPT
                   ![userId] = Push(@, File(cid, name, blockTimestamp))]
            /\ UNCHANGED <<userIds, userIdToWallet>>
            /\ status' = "ok"
            /\ logs' = << [event |-> "FileUploaded", owner |-> sender, userId |-> userId,
                           cid |-> cid, name |-> name] >>

\* deletion that shifts the later records left and keeps the order
SwapAndPop_ShiftLeft(files, index) ==
    SubSeq(files, 1, index) \o SubSeq(files, index + 2, Len(files))

\* files[index] = files[files.length - 1]; files.pop()
SwapAndPop(files, index) ==
    LET moved == [files EXCEPT ![index + 1] = files[Len(files)]]
    IN SubSeq(moved, 1, Len(files) - 1)

\* deleteFile with the bound of the index check off by one
deleteFile_OffByOne(sender, userId, index) ==
    /\ tx.op = "none"
    /\ tx' = Tx("deleteFile", sender, userId, EmptyStr, EmptyStr, index)
    /\ pre' = Storage
    /\ ret' = NoRet
    /\ UNCHANGED <<blockTimestamp, dl, up, ui>>
    /\ IF ~onlyOwner(sender, userId) THEN Revert(ErrNotAuthorized)
       ELSE IF ~(index + 1 < Len(userFiles[userId])) THEN Revert(ErrInvalidIndex)
       ELSE /\ userFiles' = [userFiles EXCEPT ![userId] = SwapAndPop(@, index)]
            /\ UNCHANGED <<userIds, userIdToWallet>>
            /\ status' = "ok"
            /\ logs' = << [event |-> "FileDeleted", owner |-> sender, userId |-> userId,
                           index |-> index] >>

\* differs from deleteFile: the event carries the index the moved record came from
deleteFile_LogsLastIndex(sender, userId, index) ==
    /\ tx.op = "none"
    /\ tx' = Tx("deleteFile", sender, userId, EmptyStr, EmptyStr, index)
    /\ pre' = Storage
    /\ ret' = NoRet
    /\ UNCHANGED <<blockTimestamp, dl, up, ui>>
    /\ IF ~onlyOwner(sender, userId) THEN Revert(ErrNotAuthorized)
       ELSE IF ~(index < Len(userFiles[userId])) THEN Revert(ErrInvalidIndex)
       ELSE /\ userFiles' = [userFiles EXCEPT ![userId] = SwapAndPop(@, index)]
            /\ UNCHANGED <<userIds, userIdToWallet>>
            /\ status' = "ok"
            /\ logs' = << [event |-> "FileDeleted", owner |-> sender, userId |-> userId,
                           index |-> Len(userFiles[userId]) - 1] >>

deleteFile(sender, userId, index) ==
    /\ tx.op = "none"
    /\ tx' = Tx("deleteFile", sender, userId, EmptyStr, EmptyStr, index)
    /\ pre' = Storage
    /\ ret' = NoRet
    /\ UNCHANGED <<blockTimestamp, dl, up, ui>>
    /\ IF ~onlyOwner(sender, userId) THEN Revert(ErrNotAuthorized)
       ELSE IF ~(index < Len(userFiles[userId])) THEN Revert(ErrInvalidIndex)
       ELSE /\ userFiles' = [userFiles EXCEPT ![userId] = SwapAndPop(@, index)]
            /\ UNCHANGED <<userIds, userIdToWallet>>
            /\ status' = "ok"
            /\ logs' = << [event |-> "FileDeleted", owner |-> sender, userId |-> userId,
                           index |-> index] >>

\* the transaction is over: its receipt is final and the next call can be taken
EndTransaction ==
    /\ tx.op # "none"
    /\ tx' = NoTx
    /\ status' = "ok"
    /\ logs' = <<>>
    /\ pre' = Storage
    /\ ret' = NoRet
    /\ UNCHANGED <<userIds, userFiles, userIdToWallet, blockTimestamp, dl, up, ui>>

\* a new block is built: block.timestamp grows
NewBlock ==
    /\ tx.op = "none"
    /\ blockTimestamp < MaxTime
    /\ blockTimestamp' = blockTimestamp + 1
    /\ UNCHANGED <<userIds, userFiles, userIdToWallet, tx, status, logs, pre, ret, dl, up, ui>>

(***************************************************************************)
(* Calls of the view functions (FileRegistry.sol, "View Functions").  A    *)
(* call is an eth_call by any address, the zero address included; it       *)
(* records what it returned in ret.  A read of a user's files may directly *)
(* follow another read of the same user's files.                           *)
(***************************************************************************)
FileViews == {"getFiles", "getFileCount"}

ViewOps == FileViews \cup {"getUserId", "getWalletByUserId", "isUserIdAvailable",
                            "isWalletRegistered"}

\* what every call of a view function does besides computing its value
View(op, sender, userId, wallet) ==
    /\ tx' = [Tx(op, sender, userId, EmptyStr, EmptyStr, 0) EXCEPT !.wallet = wallet]
    /\ pre' = Storage
    /\ status' = "ok"
    /\ logs' = <<>>
    /\ UNCHANGED <<userIds, userFiles, userIdToWallet, blockTimestamp, dl, up, cc, ui, au, fs>>

\* differs from getFilesCall: only the owner of the user ID is shown the files
getFilesCall_OwnerOnly(sender, userId) ==
    /\ tx.op = "none" \/ (tx.op \in FileViews /\ tx.userId = userId)
    /\ View("getFiles", sender, userId, ZeroAddress)
    /\ ret' = [type |-> "files",
               value |-> IF onlyOwner(sender, userId) THEN getFiles(userId) ELSE <<>>,
               repeated |-> tx.op \in FileViews]

getFilesCall(sender, userId) ==
    /\ tx.op = "none" \/ (tx.op \in FileViews /\ tx.userId = userId)
    /\ View("getFiles", sender, userId, ZeroAddress)
    /\ ret' = [type |-> "files", value |-> getFiles(userId),
               repeated |-> tx.op \in FileViews]

getFileCountCall(sender, userId) ==
    /\ tx.op = "none" \/ (tx.op \in FileViews /\ tx.userId = userId)
    /\ View("getFileCount", sender, userId, ZeroAddress)
    /\ ret' = [type |-> "count", value |-> getFileCount(userId),
               repeated |-> tx.op \in FileViews]

getUserIdCall(sender, wallet) ==
    /\ tx.op = "none"
    /\ View("getUserId", sender, EmptyStr, wallet)
    /\ ret' = [type |-> "userId", value |-> getUserId(wallet), repeated |-> FALSE]

getWalletByUserIdCall(sender, userId) ==
    /\ tx.op = "none"
    /\ View("getWalletByUserId", sender, userId, ZeroAddress)
    /\ ret' = [type |-> "wallet", value |-> getWalletByUserId(userId), repeated |-> FALSE]

isUserIdAvailableCall(sender, userId) ==
    /\ tx.op = "none"
    /\ View("isUserIdAvailable", sender, userId, ZeroAddress)
    /\ ret' = [type |-> "bool", value |-> isUserIdAvailable(userId), repeated |-> FALSE]

isWalletRegisteredCall(sender, wallet) ==
    /\ tx.op = "none"
    /\ View("isWalletRegistered", sender, EmptyStr, wallet)
    /\ ret' = [type |-> "bool", value |-> isWalletRegistered(wallet), repeated |-> FALSE]

(***************************************************************************)
(* The content store client: downloadFromIpfs (src/ipfs/ipfsClient.js).    *)
(* A URL is a sequence of segments: an origin, "/ipfs" or "/".             *)
(***************************************************************************)
FALLBACK_GATEWAYS ==
    << <<"https://ipfs.io", "/ipfs">>,
       <<"https://gateway.pinata.cloud", "/ipfs">>,
       <<"https://cloudflare-ipfs.com", "/ipfs">>,
       <<"https://dweb.link", "/ipfs">>,
       <<"https://w3s.link", "/ipfs">> >>

\* the values of config.ipfsGateway: the shipped one, a fallback with extra
\* slashes, a private gateway with and without the /ipfs suffix, and unset
GatewayInputs ==
    { <<"https://ipfs.io", "/ipfs", "/">>,
      <<"https://dweb.link", "/ipfs", "/", "/">>,
      <<"https://my.gateway", "/ipfs">>,
      <<"https://my.gateway">>,
      <<>> }

FileNameInputs == { "", "report.pdf" }

\* the HTTP statuses a gateway answers with
StatusInputs == { 200, 404 }

\* .replace(/\/+$/, '')
RECURSIVE StripTrailingSlashes(_)
StripTrailingSlashes(u) ==
    IF Len(u) > 0 /\ u[Len(u)] = "/" THEN StripTrailingSlashes(SubSeq(u, 1, Len(u) - 1))
    ELSE u

\* .replace(/\/ipfs\/?$/, '')
StripIpfsSuffix(u) ==
    IF Len(u) > 1 /\ u[Len(u)] = "/" /\ u[Len(u) - 1] = "/ipfs" THEN SubSeq(u, 1, Len(u) - 2)
    ELSE IF Len(u) > 0 /\ u[Len(u)] = "/ipfs" THEN SubSeq(u, 1, Len(u) - 1)
    ELSE u

primaryGateway(cfg) == StripIpfsSuffix(StripTrailingSlashes(cfg)) \o <<"/ipfs">>

\* [primaryGateway, ...FALLBACK_GATEWAYS.filter(g => g !== primaryGateway)]
Gateways(cfg) ==
    <<primaryGateway(cfg)>> \o SelectSeq(FALLBACK_GATEWAYS, LAMBDA g : g # primaryGateway(cfg))

\* response.ok
ResponseOk(st) == st >= 200 /\ st <= 299

\* the messages of the errors the loop catches
MsgHttp(st) == <<"HTTP ", ToString(st), ": ", "statusText">>
MsgTransport == <<"Failed to fetch">>
MsgAborted == <<"The operation was aborted.">>
MsgBody == <<"network error">>

NoError == [isNull |-> TRUE, message |-> <<>>]

Error(msg) == [isNull |-> FALSE, message |-> msg]

\* `Failed to download from all gateways. Last error: ${lastError?.message || 'Unknown'}`
AggregateMessage(lastError) ==
    <<"Failed to download from all gateways. Last error: ">>
      \o (IF lastError.isNull \/ lastError.message = <<>> THEN <<"Unknown">> ELSE lastError.message)

\* the for loop reaches candidate k: past the end of the list the call rejects,
\* otherwise fetchWithTimeout sends the request and arms the timer
Iterate(d, k) ==
    IF k > Len(d.gateways)
    THEN [d EXCEPT !.pc = "rejected", !.k = k, !.timer = FALSE,
                   !.error = AggregateMessage(d.lastError)]
    ELSE [d EXCEPT !.pc = "fetch", !.k = k, !.timer = TRUE,
                   !.requests = Append(@, d.gateways[k]),
                   !.outcomes = Append(@, <<"pending">>),
                   !.inflight = @ \cup {k}]

\* catch that keeps the first error: lastError = lastError || error
Catch_KeepFirstError(d, msg) ==
    Iterate([d EXCEPT !.lastError = IF d.lastError.isNull THEN Error(msg) ELSE @,
                      !.outcomes = [@ EXCEPT ![d.k] = msg],
                      !.inflight = @ \ {d.k}],
            d.k + 1)

\* catch (error): lastError = error, continue with the next gateway
Catch(d, msg) ==
    Iterate([d EXCEPT !.lastError = Error(msg),
                      !.outcomes = [@ EXCEPT ![d.k] = msg],
                      !.inflight = @ \ {d.k}],
            d.k + 1)

downloadFromIpfs(cfg, fileName) ==
    /\ dl.pc \in {"idle", "resolved", "rejected"}
    /\ dl' = Iterate([pc |-> "idle", gateways |-> Gateways(cfg), fileName |-> fileName,
                      k |-> 0, timer |-> FALSE, lastError |-> NoError,
                      requests |-> <<>>, outcomes |-> <<>>, inflight |-> {},
                      httpOk |-> {}, saves |-> <<>>, error |-> <<>>], 1)
    /\ UNCHANGED <<ledgerVars, up, cc, ui, au, fs>>

\* fetch resolves with a response: clearTimeout, then the response.ok test
FetchResponds(st) ==
    /\ dl.pc = "fetch"
    /\ dl' = IF ~ResponseOk(st)
             THEN Catch([dl EXCEPT !.timer = FALSE], MsgHttp(st))
             ELSE [dl EXCEPT !.pc = "blob", !.timer = FALSE, !.httpOk = @ \cup {dl.k}]
    /\ UNCHANGED <<ledgerVars, up, cc, ui, au, fs>>

\* fetch rejects with a transport error: clearTimeout, rethrow
FetchFails ==
    /\ dl.pc = "fetch"
    /\ dl' = Catch([dl EXCEPT !.timer = FALSE], MsgTransport)
    /\ UNCHANGED <<ledgerVars, up, cc, ui, au, fs>>

\* the timer of fetchWithTimeout fires: controller.abort() rejects the fetch
FetchTimeout ==
    /\ dl.pc = "fetch"
    /\ dl.timer
    /\ dl' = Catch([dl EXCEPT !.timer = FALSE], MsgAborted)
    /\ UNCHANGED <<ledgerVars, up, cc, ui, au, fs>>

\* the success branch without its return: the loop goes on to the next gateway
BlobResolves_NoReturn ==
    /\ dl.pc = "blob"
    /\ dl' = Iterate([dl EXCEPT !.outcomes = [@ EXCEPT ![dl.k] = <<"ok">>],
                                !.inflight = @ \ {dl.k},
                                !.saves = Append(@, dl.fileName)],
                      dl.k + 1)
    /\ UNCHANGED <<ledgerVars, up, cc, ui, au, fs>>

\* response.blob() resolves: the link is clicked and the call returns
BlobResolves ==
    /\ dl.pc = "blob"
    /\ dl' = [dl EXCEPT !.pc = "resolved",
                        !.outcomes = [@ EXCEPT ![dl.k] = <<"ok">>],
                        !.inflight = @ \ {dl.k},
                        !.saves = Append(@, dl.fileName)]
    /\ UNCHANGED <<ledgerVars, up, cc, ui, au, fs>>

\* response.blob() rejects: the body could not be read
BlobRejects ==
    /\ dl.pc = "blob"
    /\ dl' = Catch(dl, MsgBody)
    /\ UNCHANGED <<ledgerVars, up, cc, ui, au, fs>>

DlIdle ==
    [pc |-> "idle", gateways |-> <<>>, fileName |-> "", k |-> 0, timer |-> FALSE,
     lastError |-> NoError, requests |-> <<>>, outcomes |-> <<>>, inflight |-> {},
     httpOk |-> {}, saves |-> <<>>, error |-> <<>>]

(***************************************************************************)
(* The content store client: uploadToIpfs (src/ipfs/ipfsClient.js).  A     *)
(* file is its declared size and type; the configuration is the maximum    *)
(* size (0: none, the number is falsy), the allowed types and the demo     *)
(* switch.  calls lists what the call has asked of the content store       *)
(* client.                                                                 *)
(***************************************************************************)
MaxSize == 2

MaxFileSizeInputs == {0, MaxSize}

FileSizeInputs == 0..(MaxSize + 1)

FileTypeInputs == {"", "application/pdf", "application/octet-stream", "image/png"}

AllowedFileTypesInputs == { {}, {"application/pdf"}, {"application/octet-stream"} }

UploadConfigInputs ==
    [maxFileSize : MaxFileSizeInputs, allowedFileTypes : AllowedFileTypesInputs,
     useDemoMode : BOOLEAN]

FileInputs == [size : FileSizeInputs, type : FileTypeInputs]

\* file.type || 'application/octet-stream'
fileType(file) == IF file.type = "" THEN "application/octet-stream" ELSE file.type

MsgSize == "File size exceeds maximum allowed size"
MsgType == "File type is not allowed"
MsgClient == "Failed to connect to IPFS"
MsgConnect == "Cannot connect to IPFS"
MsgOther == "upload error"

\* the catch block of uploadToIpfs: a message that names fetch or a refused
\* connection becomes MsgConnect, any other is prefixed
UploadCatch(msg) ==
    [up EXCEPT !.pc = "rejected",
               !.error = IF msg = "fetch failed" THEN <<MsgConnect>>
                         ELSE <<"Failed to upload file to IPFS: ", msg>>]

\* differs from uploadToIpfs: the type of the file is not validated
uploadToIpfs_NoTypeCheck(cfg, file) ==
    /\ up.pc = "idle"
    /\ LET u == [up EXCEPT !.config = cfg, !.file = file] IN
       IF cfg.maxFileSize # 0 /\ file.size > cfg.maxFileSize
       THEN up' = [u EXCEPT !.pc = "rejected",
                            !.error = <<"Failed to upload file to IPFS: ", MsgSize>>]
       ELSE IF cfg.useDemoMode
       THEN up' = [u EXCEPT !.pc = "resolved", !.cid = "QmDemo"]
       ELSE up' = [u EXCEPT !.pc = "getIpfsClient", !.calls = <<"getIpfsClient">>]
    /\ UNCHANGED <<ledgerVars, dl, cc, ui, au, fs>>

\* the call up to its first await: both validations, then demo mode
uploadToIpfs(cfg, file) ==
    /\ up.pc = "idle"
    /\ LET u == [up EXCEPT !.config = cfg, !.file = file] IN
       IF cfg.maxFileSize # 0 /\ file.size > cfg.maxFileSize
       THEN up' = [u EXCEPT !.pc = "rejected",
                            !.error = <<"Failed to upload file to IPFS: ", MsgSize>>]
       ELSE IF cfg.allowedFileTypes # {} /\ fileType(file) \notin cfg.allowedFileTypes
       THEN up' = [u EXCEPT !.pc = "rejected",
                            !.error = <<"Failed to upload file to IPFS: ", MsgType>>]
       ELSE IF cfg.useDemoMode
       THEN up' = [u EXCEPT !.pc = "resolved", !.cid = "QmDemo"]
       ELSE up' = [u EXCEPT !.pc = "getIpfsClient", !.calls = <<"getIpfsClient">>]
    /\ UNCHANGED <<ledgerVars, dl, cc, ui, au, fs>>

\* getIpfsClient returns the client: the file is read next
GetIpfsClientResolves ==
    /\ up.pc = "getIpfsClient"
    /\ up' = [up EXCEPT !.pc = "arrayBuffer", !.calls = Append(@, "arrayBuffer")]
    /\ UNCHANGED <<ledgerVars, dl, cc, ui, au, fs>>

\* the client cannot be created
GetIpfsClientRejects ==
    /\ up.pc = "getIpfsClient"
    /\ up' = UploadCatch(MsgClient)
    /\ UNCHANGED <<ledgerVars, dl, cc, ui, au, fs>>

\* the bytes are read: client.add sends them to the content store
ArrayBufferResolves ==
    /\ up.pc = "arrayBuffer"
    /\ up' = [up EXCEPT !.pc = "add", !.calls = Append(@, "add")]
    /\ UNCHANGED <<ledgerVars, dl, cc, ui, au, fs>>

ArrayBufferRejects ==
    /\ up.pc = "arrayBuffer"
    /\ up' = UploadCatch(MsgOther)
    /\ UNCHANGED <<ledgerVars, dl, cc, ui, au, fs>>

\* the content store answers with the path of the file, its CID
AddResolves ==
    /\ up.pc = "add"
    /\ up' = [up EXCEPT !.pc = "resolved", !.cid = "Qm"]
    /\ UNCHANGED <<ledgerVars, dl, cc, ui, au, fs>>

\* the content store is not reached, or it refuses the file
AddRejects(msg) ==
    /\ up.pc = "add"
    /\ up' = UploadCatch(msg)
    /\ UNCHANGED <<ledgerVars, dl, cc, ui, au, fs>>

UpIdle ==
    [pc |-> "idle", config |-> [maxFileSize |-> 0, allowedFileTypes |-> {},
                                useDemoMode |-> FALSE],
     file |-> [size |-> 0, type |-> ""], calls |-> <<>>, cid |-> "", error |-> <<>>]

(***************************************************************************)
(* The chain client (utils/web3.js), the registry client                   *)
(* (blockchain/contract.js) and logout and the account listener of         *)
(* auth/walletAuth.js, with the wallet they talk to.  cc holds             *)
(*   ethereum            whether window.ethereum exists                    *)
(*   account             the account selected in the wallet                *)
(*   provider, signer    the module variables of web3.js                   *)
(*   contractInstance, contractWithSigner   those of contract.js           *)
(*   pending             the transaction sent and not yet mined            *)
(*   call                the client operation under way or just over       *)
(* One operation of the client is under way at a time.                     *)
(***************************************************************************)

\* the first account of the node behind config.rpcUrl
RpcAccount == "A"

NoSigner == [from |-> "null", address |-> ZeroAddress]

\* a JsonRpcSigner: the provider that made it and the address it signs for
Signer(from, address) == [from |-> from, address |-> address]

Writes == {"registerUser", "uploadFileMetadata", "deleteFile"}

\* the function of the contract a client write calls
ContractFunction(op) == IF op = "uploadFileMetadata" THEN "uploadFile" ELSE op

ClientUserIdInputs == {Str("a", 1), Str("a", MaxUserIdLen)}

\* config.chainId
ChainId == 1337

\* the chain the wallet is on: config.chainId or another
ChainIdInputs == {ChainId, 1}

MsgNotInstalled == "MetaMask is not installed. Please install MetaMask to continue."
MsgConnectionRejected == "Connection rejected. Please approve the connection in MetaMask."
MsgUserRejected == "user rejected action"
MsgRpc == "could not reach the node"
MsgReverted == "transaction execution reverted"

CallIdle ==
    [op |-> "none", pc |-> "idle", userId |-> EmptyStr, cid |-> EmptyStr, name |-> EmptyStr,
     index |-> 0, wallet |-> ZeroAddress, account |-> ZeroAddress, switched |-> FALSE,
     via |-> "null", signer |-> NoSigner, failed |-> FALSE, value |-> "undefined",
     error |-> <<>>]

CcIdle ==
    [ethereum |-> TRUE, account |-> "A", provider |-> "null", signer |-> NoSigner,
     contractInstance |-> "null", contractWithSigner |-> NoSigner, pending |-> NoTx,
     call |-> CallIdle]

\* no operation of the client is under way
CallOver == cc.call.pc \in {"idle", "resolved", "rejected"}

isMetaMaskInstalled == cc.ethereum

\* the provider getProvider returns, which it stores when there was none
getProvider ==
    IF cc.provider # "null" THEN cc.provider
    ELSE IF isMetaMaskInstalled THEN "BrowserProvider" ELSE "JsonRpcProvider"

\* a write of the registry client up to its first pending await:
\* getContractWithSigner returns the cached contract, or makes one of the
\* cached signer, or asks the provider for a signer
Write(op, userId, cid, name, index) ==
    /\ CallOver
    /\ LET c == [CallIdle EXCEPT !.op = op, !.userId = userId, !.cid = cid, !.name = name,
                                 !.index = index, !.account = cc.account] IN
       IF cc.contractWithSigner # NoSigner
       THEN cc' = [cc EXCEPT !.call = [c EXCEPT !.pc = "send",
                                                !.signer = cc.contractWithSigner]]
       ELSE IF cc.signer # NoSigner
       THEN cc' = [cc EXCEPT !.contractWithSigner = cc.signer,
                             !.call = [c EXCEPT !.pc = "send", !.signer = cc.signer]]
       ELSE cc' = [cc EXCEPT !.provider = getProvider,
                             !.call = [c EXCEPT !.pc = "getSigner", !.via = getProvider]]
    /\ UNCHANGED <<ledgerVars, dl, up, ui, fs>>

client_registerUser(userId) == Write("registerUser", userId, EmptyStr, EmptyStr, 0)

uploadFileMetadata(userId, cid, fileName) == Write("uploadFileMetadata", userId, cid, fileName, 0)

client_deleteFile(userId, fileIndex) == Write("deleteFile", userId, EmptyStr, EmptyStr, fileIndex)

\* the catch block of a write: the error is rethrown with a prefix
WriteCatch(msg) ==
    [cc.call EXCEPT !.pc = "rejected", !.failed = TRUE,
                    !.error = <<"Failed to ", cc.call.op, ": ", msg>>]

\* provider.getSigner() answers: the browser provider with the account selected
\* in the wallet, the JSON-RPC provider with the first account of the node
GetSignerResolves ==
    /\ cc.call.op \in Writes
    /\ cc.call.pc = "getSigner"
    /\ LET sg == Signer(cc.call.via,
                        IF cc.call.via = "BrowserProvider" THEN cc.account ELSE RpcAccount) IN
       cc' = [cc EXCEPT !.signer = sg, !.contractWithSigner = sg,
                        !.call = [cc.call EXCEPT !.pc = "send", !.signer = sg]]
    /\ UNCHANGED <<ledgerVars, dl, up, ui, fs>>

\* the wallet refuses the accounts, or the node is not reached
GetSignerRejects(msg) ==
    /\ cc.call.op \in Writes
    /\ cc.call.pc = "getSigner"
    /\ cc' = [cc EXCEPT !.call = WriteCatch(msg)]
    /\ UNCHANGED <<ledgerVars, dl, up, ui, fs>>

\* differs from SendResolves: the write returns without tx.wait()
SendResolves_NoWait ==
    /\ cc.call.op \in Writes
    /\ cc.call.pc = "send"
    /\ cc.pending = NoTx
    /\ cc' = [cc EXCEPT !.pending = [Tx(ContractFunction(cc.call.op), cc.call.signer.address,
                                        cc.call.userId, cc.call.cid, cc.call.name,
                                        cc.call.index) EXCEPT !.timestamp = 0],
                        !.call = [cc.call EXCEPT !.pc = "resolved", !.value = "receipt"]]
    /\ UNCHANGED <<ledgerVars, dl, up, ui, fs>>

\* contract.f(...) resolves: the transaction is signed for the address of the
\* signer of the contract and sent; tx.wait() is awaited
SendResolves ==
    /\ cc.call.op \in Writes
    /\ cc.call.pc = "send"
    /\ cc.pending = NoTx
    /\ cc' = [cc EXCEPT !.pending = [Tx(ContractFunction(cc.call.op), cc.call.signer.address,
                                        cc.call.userId, cc.call.cid, cc.call.name,
                                        cc.call.index) EXCEPT !.timestamp = 0],
                        !.call = [cc.call EXCEPT !.pc = "wait"]]
    /\ UNCHANGED <<ledgerVars, dl, up, ui, fs>>

\* contract.f(...) rejects: the gas estimate fails, the user declines, the
\* wallet does not sign for that address, the node is not reached
SendRejects(msg) ==
    /\ cc.call.op \in Writes
    /\ cc.call.pc = "send"
    /\ cc' = [cc EXCEPT !.call = WriteCatch(msg)]
    /\ UNCHANGED <<ledgerVars, dl, up, ui, fs>>

\* the pending transaction is mined: the contract runs it
MineRegisterUser ==
    /\ cc.pending.op = "registerUser"
    /\ registerUser(cc.pending.sender, cc.pending.userId)
    /\ cc' = [cc EXCEPT !.pending = NoTx]
    /\ UNCHANGED fs

MineUploadFile ==
    /\ cc.pending.op = "uploadFile"
    /\ uploadFile(cc.pending.sender, cc.pending.userId, cc.pending.cid, cc.pending.name)
    /\ cc' = [cc EXCEPT !.pending = NoTx]
    /\ UNCHANGED fs

MineDeleteFile ==
    /\ cc.pending.op = "deleteFile"
    /\ deleteFile(cc.pending.sender, cc.pending.userId, cc.pending.index)
    /\ cc' = [cc EXCEPT !.pending = NoTx]
    /\ UNCHANGED fs

\* tx.wait() returns the receipt of the mined transaction, or throws when the
\* transaction reverted
WaitReturns ==
    /\ cc.call.op \in Writes
    /\ cc.call.pc = "wait"
    /\ cc.pending = NoTx
    /\ tx.op = ContractFunction(cc.call.op)
    /\ cc' = [cc EXCEPT !.call = IF status = "ok"
                                 THEN [cc.call EXCEPT !.pc = "resolved", !.value = "receipt"]
                                 ELSE WriteCatch(MsgReverted)]
    /\ UNCHANGED <<ledgerVars, dl, up, ui, fs>>

\* the receipt of a mined transaction is final once tx.wait() has returned
ClientEndTransaction ==
    /\ cc.call.pc # "wait"
    /\ EndTransaction
    /\ UNCHANGED <<cc, fs>>

\* getUserId of the registry client: getContract and the call of the view
client_getUserId(op, walletAddress) ==
    /\ CallOver
    /\ op \in {"getUserId", "isUserRegistered"}
    /\ cc' = [cc EXCEPT !.provider = getProvider,
                        !.contractInstance = IF @ = "null" THEN getProvider ELSE @,
                        !.call = [CallIdle EXCEPT !.op = op, !.pc = "call",
                                                  !.wallet = walletAddress,
                                                  !.account = cc.account]]
    /\ UNCHANGED <<ledgerVars, dl, up, ui, fs>>

\* the view answers: getUserId returns the user ID, isUserRegistered whether
\* it is not empty
GetUserIdResolves ==
    /\ cc.call.op \in {"getUserId", "isUserRegistered"}
    /\ cc.call.pc = "call"
    /\ cc' = [cc EXCEPT !.call =
                 [cc.call EXCEPT !.pc = "resolved",
                                 !.value = IF cc.call.op = "getUserId"
                                           THEN getUserId(cc.call.wallet)
                                           ELSE BytesLen(getUserId(cc.call.wallet)) > 0]]
    /\ UNCHANGED <<ledgerVars, dl, up, ui, fs>>

\* the view fails: getUserId rethrows, isUserRegistered catches that and
\* returns false
GetUserIdRejects ==
    /\ cc.call.op \in {"getUserId", "isUserRegistered"}
    /\ cc.call.pc = "call"
    /\ cc' = [cc EXCEPT !.call =
                 IF cc.call.op = "getUserId"
                 THEN [cc.call EXCEPT !.pc = "rejected", !.failed = TRUE,
                                      !.error = <<"Failed to get user ID: ", MsgRpc>>]
                 ELSE [cc.call EXCEPT !.pc = "resolved", !.failed = TRUE, !.value = FALSE]]
    /\ UNCHANGED <<ledgerVars, dl, up, ui, fs>>

\* isCorrectNetwork and getConnectedAddress: false and null without a wallet,
\* else one request to it
WalletQuery(op) ==
    /\ CallOver
    /\ op \in {"isCorrectNetwork", "getConnectedAddress"}
    /\ cc' = [cc EXCEPT !.call =
                 IF ~isMetaMaskInstalled
                 THEN [CallIdle EXCEPT !.op = op, !.pc = "resolved",
                                       !.value = IF op = "isCorrectNetwork" THEN FALSE
                                                 ELSE "null"]
                 ELSE [CallIdle EXCEPT !.op = op, !.pc = "request", !.account = cc.account]]
    /\ UNCHANGED <<ledgerVars, dl, up, ui, fs>>

\* eth_chainId answers
ChainIdResolves(chainId) ==
    /\ cc.call.op = "isCorrectNetwork"
    /\ cc.call.pc = "request"
    /\ cc' = [cc EXCEPT !.call = [cc.call EXCEPT !.pc = "resolved", !.value = (chainId = ChainId)]]
    /\ UNCHANGED <<ledgerVars, dl, up, ui, fs>>

\* eth_accounts answers: the selected account, or none when the site is not
\* connected
AccountsResolves(connected) ==
    /\ cc.call.op = "getConnectedAddress"
    /\ cc.call.pc = "request"
    /\ cc' = [cc EXCEPT !.call = [cc.call EXCEPT !.pc = "resolved",
                                      !.value = IF connected THEN cc.account ELSE "null"]]
    /\ UNCHANGED <<ledgerVars, dl, up, ui, fs>>

\* the request fails: the catch block returns false, or null
RequestRejects ==
    /\ cc.call.op \in {"isCorrectNetwork", "getConnectedAddress"}
    /\ cc.call.pc = "request"
    /\ cc' = [cc EXCEPT !.call = [cc.call EXCEPT !.pc = "resolved", !.failed = TRUE,
                                      !.value = IF cc.call.op = "isCorrectNetwork" THEN FALSE
                                                ELSE "null"]]
    /\ UNCHANGED <<ledgerVars, dl, up, ui, fs>>

\* connectWallet up to eth_requestAccounts
connectWallet ==
    /\ CallOver
    /\ cc' = [cc EXCEPT !.call =
                 IF ~isMetaMaskInstalled
                 THEN [CallIdle EXCEPT !.op = "connectWallet", !.pc = "rejected",
                                       !.error = <<MsgNotInstalled>>]
                 ELSE [CallIdle EXCEPT !.op = "connectWallet", !.pc = "requestAccounts",
                                       !.account = cc.account]]
    /\ UNCHANGED <<ledgerVars, dl, up, ui, fs>>

\* the user approves: a fresh provider, then provider.getSigner()
RequestAccountsResolves ==
    /\ cc.call.op = "connectWallet"
    /\ cc.call.pc = "requestAccounts"
    /\ cc' = [cc EXCEPT !.provider = "BrowserProvider",
                        !.call = [cc.call EXCEPT !.pc = "getSigner", !.value = cc.account]]
    /\ UNCHANGED <<ledgerVars, dl, up, ui, fs>>

\* the user declines (code 4001)
RequestAccountsRejects ==
    /\ cc.call.op = "connectWallet"
    /\ cc.call.pc = "requestAccounts"
    /\ cc' = [cc EXCEPT !.call = [cc.call EXCEPT !.pc = "rejected", !.failed = TRUE,
                                      !.error = <<MsgConnectionRejected>>]]
    /\ UNCHANGED <<ledgerVars, dl, up, ui, fs>>

\* the fresh signer is stored and accounts[0] returned
ConnectSignerResolves ==
    /\ cc.call.op = "connectWallet"
    /\ cc.call.pc = "getSigner"
    /\ cc' = [cc EXCEPT !.signer = Signer("BrowserProvider", cc.account),
                        !.call = [cc.call EXCEPT !.pc = "resolved"]]
    /\ UNCHANGED <<ledgerVars, dl, up, ui, fs>>

\* disconnectWallet
disconnectWallet == [cc EXCEPT !.provider = "null", !.signer = NoSigner]

\* logout: disconnectWallet; the contracts of contract.js are kept
logout ==
    /\ cc.ethereum
    /\ cc' = disconnectWallet
    /\ UNCHANGED <<ledgerVars, dl, up, ui, fs>>

\* the user selects another account in the wallet: accountsChanged.  The
\* listener of setupAuthListeners looks up the user ID of the account; it
\* touches neither the signer nor the contracts
accountsChanged(account) ==
    /\ cc.ethereum
    /\ account # cc.account
    /\ cc' = [cc EXCEPT !.account = account,
                        !.call = IF CallOver THEN @ ELSE [@ EXCEPT !.switched = TRUE]]
    /\ UNCHANGED <<ledgerVars, dl, up, ui, fs>>


(***************************************************************************)
(* The dashboards: pages/UserDashboard.jsx and pages/ValuatorDashboard.jsx *)
(* with components/UploadFile.jsx, FileList.jsx, DeleteFile.jsx and        *)
(* DownloadFile.jsx.  ui holds the state of the components, the ledger     *)
(* writes in flight (a write is live while the component that started it  *)
(* is still mounted, and of the session until the dashboard is left) and   *)
(* the calls the session has issued, each with whether it goes through the *)
(* contract with signer.  What the ledger answers to getFiles is any       *)
(* number of rows up to MaxRows.                                           *)
(***************************************************************************)
MaxRows == 2

RowIdle == [confirmDelete |-> FALSE, deleting |-> FALSE, downloading |-> FALSE]

UiIdle ==
    [page |-> "login", showRegister |-> FALSE, registering |-> FALSE, loading |-> FALSE,
     files |-> 0, rows |-> [i \in 0..(MaxRows - 1) |-> RowIdle], selectedFile |-> FALSE,
     uploading |-> "no", searching |-> FALSE, currentUserId |-> FALSE,
     inflight |-> {}, issued |-> {}]

\* a call of a function of the contract, through getContractWithSigner or not
Issue(fn, withSigner) == [fn |-> fn, signer |-> withSigner]

isReadOnly == ui.page = "valuator"

\* fetchFiles of FileList up to its await: the rows give way to "Loading"
fetchFiles(u) ==
    [u EXCEPT !.loading = TRUE,
              !.rows = [i \in 0..(MaxRows - 1) |-> RowIdle],
              !.inflight = { [w EXCEPT !.live = FALSE] : w \in @ },
              !.issued = @ \cup {Issue("getFiles", FALSE)}]

\* the user dashboard is entered: the registration form for a wallet without a
\* user ID, else the upload form and the list
OpenUserDashboard(registered) ==
    /\ ui.page = "login"
    /\ ui' = IF registered
             THEN fetchFiles([UiIdle EXCEPT !.page = "user", !.inflight = ui.inflight])
             ELSE [UiIdle EXCEPT !.page = "user", !.showRegister = TRUE,
                                 !.inflight = ui.inflight]
    /\ UNCHANGED <<ledgerVars, dl, up, cc, au, fs>>

\* a valuator is logged in with an e-mail address and a password
OpenValuatorDashboard ==
    /\ ui.page = "login"
    /\ ui' = [UiIdle EXCEPT !.page = "valuator", !.inflight = ui.inflight]
    /\ UNCHANGED <<ledgerVars, dl, up, cc, au, fs>>

\* handleLogout of either dashboard: the components are unmounted
handleLogout ==
    /\ ui.page # "login"
    /\ ui' = [UiIdle EXCEPT !.inflight = { [w EXCEPT !.live = FALSE, !.session = FALSE] :
                                            w \in ui.inflight }]
    /\ UNCHANGED <<ledgerVars, dl, up, cc, au, fs>>

\* handleRegister: registerNewUser sends registerUser
handleRegister ==
    /\ ui.page = "user"
    /\ ui.showRegister
    /\ ~ui.registering
    /\ ui' = [ui EXCEPT !.registering = TRUE,
                        !.inflight = @ \cup {[fn |-> "registerUser", index |-> 0, live |-> TRUE, session |-> TRUE]},
                        !.issued = @ \cup {Issue("registerUser", TRUE)}]
    /\ UNCHANGED <<ledgerVars, dl, up, cc, au, fs>>

\* the registration is over: with success the form gives way to the upload
\* form and the list
RegisterSettles(ok) ==
    /\ \E w \in ui.inflight :
          /\ w.fn = "registerUser"
          /\ ui' = IF ~w.live THEN [ui EXCEPT !.inflight = @ \ {w}]
                   ELSE IF ok
                   THEN fetchFiles([ui EXCEPT !.inflight = @ \ {w}, !.registering = FALSE,
                                              !.showRegister = FALSE])
                   ELSE [ui EXCEPT !.inflight = @ \ {w}, !.registering = FALSE]
    /\ UNCHANGED <<ledgerVars, dl, up, cc, au, fs>>

\* handleFileSelect: a file of an allowed size is selected
handleFileSelect(ok) ==
    /\ ui.page = "user"
    /\ ~ui.showRegister
    /\ ui.uploading = "no"
    /\ ui' = [ui EXCEPT !.selectedFile = IF ok THEN TRUE ELSE FALSE]
    /\ UNCHANGED <<ledgerVars, dl, up, cc, au, fs>>

\* handleUpload up to uploadToIpfs; the button is disabled while uploading
handleUpload ==
    /\ ui.page = "user"
    /\ ~ui.showRegister
    /\ ui.selectedFile
    /\ ui.uploading = "no"
    /\ ui' = [ui EXCEPT !.uploading = "ipfs"]
    /\ UNCHANGED <<ledgerVars, dl, up, cc, au, fs>>

\* uploadToIpfs returns the CID: uploadFileMetadata is called
UploadToIpfsResolves ==
    /\ ui.uploading = "ipfs"
    /\ ui' = [ui EXCEPT !.uploading = "metadata",
                        !.inflight = @ \cup {[fn |-> "uploadFile", index |-> 0, live |-> TRUE, session |-> TRUE]},
                        !.issued = @ \cup {Issue("uploadFile", TRUE)}]
    /\ UNCHANGED <<ledgerVars, dl, up, cc, au, fs>>

UploadToIpfsRejects ==
    /\ ui.uploading = "ipfs"
    /\ ui' = [ui EXCEPT !.uploading = "no"]
    /\ UNCHANGED <<ledgerVars, dl, up, cc, au, fs>>

\* uploadFileMetadata is over: with success the list is fetched again
UploadMetadataSettles(ok) ==
    /\ \E w \in ui.inflight :
          /\ w.fn = "uploadFile"
          /\ ui' = IF ~w.live THEN [ui EXCEPT !.inflight = @ \ {w}]
                   ELSE IF ok
                   THEN fetchFiles([ui EXCEPT !.inflight = @ \ {w}, !.uploading = "no",
                                              !.selectedFile = FALSE])
                   ELSE [ui EXCEPT !.inflight = @ \ {w}, !.uploading = "no"]
    /\ UNCHANGED <<ledgerVars, dl, up, cc, au, fs>>

\* getFiles answers with n files, or fails: the rows are shown
FetchFilesSettles(n) ==
    /\ ui.loading
    /\ ui' = [ui EXCEPT !.loading = FALSE, !.files = n]
    /\ UNCHANGED <<ledgerVars, dl, up, cc, au, fs>>

\* the rows of the list that are shown
ShownRows ==
    IF ui.loading \/ ui.showRegister \/ ui.page = "login" THEN {}
    ELSE IF ui.page = "valuator" /\ ~ui.currentUserId THEN {}
    ELSE 0..(ui.files - 1)

\* handleDownload of DownloadFile
handleDownload(index) ==
    /\ index \in ShownRows
    /\ ~ui.rows[index].downloading
    /\ ui' = [ui EXCEPT !.rows[index].downloading = TRUE,
                        !.issued = @ \cup {Issue("download", FALSE)}]
    /\ UNCHANGED <<ledgerVars, dl, up, cc, au, fs>>

DownloadSettles(index) ==
    /\ ui.rows[index].downloading
    /\ ui' = [ui EXCEPT !.rows[index].downloading = FALSE]
    /\ UNCHANGED <<ledgerVars, dl, up, cc, au, fs>>

\* differs from handleDeleteClick: the list shows DeleteFile also when read-only
handleDeleteClick_IgnoresReadOnly(index) ==
    /\ index \in ShownRows
    /\ ~ui.rows[index].confirmDelete
    /\ ui' = [ui EXCEPT !.rows[index].confirmDelete = TRUE]
    /\ UNCHANGED <<ledgerVars, dl, up, cc, au, fs>>

\* handleDeleteClick of DeleteFile, which FileList renders unless read-only
handleDeleteClick(index) ==
    /\ ~isReadOnly
    /\ index \in ShownRows
    /\ ~ui.rows[index].confirmDelete
    /\ ui' = [ui EXCEPT !.rows[index].confirmDelete = TRUE]
    /\ UNCHANGED <<ledgerVars, dl, up, cc, au, fs>>

handleCancelDelete(index) ==
    /\ index \in ShownRows
    /\ ui.rows[index].confirmDelete
    /\ ~ui.rows[index].deleting
    /\ ui' = [ui EXCEPT !.rows[index].confirmDelete = FALSE]
    /\ UNCHANGED <<ledgerVars, dl, up, cc, au, fs>>

\* handleConfirmDelete up to deleteFile; Yes is disabled while this row deletes
handleConfirmDelete(index) ==
    /\ index \in ShownRows
    /\ ui.rows[index].confirmDelete
    /\ ~ui.rows[index].deleting
    /\ ui' = [ui EXCEPT !.rows[index].deleting = TRUE,
                        !.inflight = @ \cup {[fn |-> "deleteFile", index |-> index,
                                              live |-> TRUE, session |-> TRUE]},
                        !.issued = @ \cup {Issue("deleteFile", TRUE)}]
    /\ UNCHANGED <<ledgerVars, dl, up, cc, au, fs>>

\* deleteFile is over: with success the list is fetched again
DeleteSettles(index, ok) ==
    /\ \E w \in ui.inflight :
          /\ w.fn = "deleteFile"
          /\ w.index = index
          /\ ui' = IF ~w.live THEN [ui EXCEPT !.inflight = @ \ {w}]
                   ELSE IF ok
                   THEN fetchFiles([ui EXCEPT !.inflight = @ \ {w}])
                   ELSE [ui EXCEPT !.inflight = @ \ {w}, !.rows[index].deleting = FALSE]
    /\ UNCHANGED <<ledgerVars, dl, up, cc, au, fs>>

\* handleSearch of the valuator dashboard up to getFileCount
handleSearch ==
    /\ ui.page = "valuator"
    /\ ~ui.searching
    /\ ui' = [ui EXCEPT !.searching = TRUE,
                        !.issued = @ \cup {Issue("getFileCount", FALSE)}]
    /\ UNCHANGED <<ledgerVars, dl, up, cc, au, fs>>

\* getFileCount is over: with success the list of the user is mounted
SearchSettles(ok) ==
    /\ ui.page = "valuator"
    /\ ui.searching
    /\ ui' = IF ok /\ ~ui.currentUserId
             THEN fetchFiles([ui EXCEPT !.searching = FALSE, !.currentUserId = TRUE])
             ELSE [ui EXCEPT !.searching = FALSE]
    /\ UNCHANGED <<ledgerVars, dl, up, cc, au, fs>>

handleClearSearch ==
    /\ ui.page = "valuator"
    /\ ui.currentUserId
    /\ ui' = [ui EXCEPT !.currentUserId = FALSE, !.loading = FALSE, !.files = 0,
                        !.rows = [i \in 0..(MaxRows - 1) |-> RowIdle]]
    /\ UNCHANGED <<ledgerVars, dl, up, cc, au, fs>>


(***************************************************************************)
(* Wallet authentication: auth/walletAuth.js over blockchain/web3.js and   *)
(* blockchain/contract.js.  au holds authState, the one operation of the   *)
(* module under way (loginWithWallet, registerNewUser or checkAuthStatus)  *)
(* with the requests it has made to the wallet and the ledger, the         *)
(* lookups of the accountsChanged listener that have not answered yet,     *)
(* whether setupAuthListeners has run, and whether the wallet is on the    *)
(* configured chain.  The calls an operation awaits are the calls of the   *)
(* client above; the listener's lookups run beside them.                   *)
(***************************************************************************)
MaxLookups == 2

UserRejectedRequest == 4001
UnrecognizedChain == 4902
ErrorCodeInputs == {UserRejectedRequest, UnrecognizedChain, -32603}

\* null, where authState holds a user ID
Null == [ch |-> "null", n |-> 0]

MsgSwitchNetwork == "Please switch to the correct network (Ganache Local) in MetaMask."
MsgConnectFirst == "Please connect your wallet first."
MsgInvalidUserId == "Please provide a valid user ID."
MsgAlreadyRegistered == "This wallet is already registered."

NoAuth == [isAuthenticated |-> FALSE, walletAddress |-> "null", userId |-> Null]

\* userId || null
OrNull(userId) == IF BytesLen(userId) = 0 THEN Null ELSE userId

Authenticated(address, userId) ==
    [isAuthenticated |-> TRUE, walletAddress |-> address, userId |-> OrNull(userId)]

\* userId.trim(): the inputs are a name and a run of blanks
trim(userId) == IF userId.ch = " " THEN EmptyStr ELSE userId

\* `user_${address.slice(2, 10).toLowerCase()}`: a valid user ID made of the
\* address, one per wallet here
generatedId(address) == IF address = "A" THEN Str("a", 1) ELSE Str("a", MaxUserIdLen)

RegisterUserIdInputs == {Str("a", 1), Str(" ", 1)}

OpIdle ==
    [name |-> "none", pc |-> "idle", autoRegister |-> FALSE, address |-> ZeroAddress,
     userId |-> EmptyStr, requests |-> <<>>, cause |-> "none", error |-> <<>>]

AuIdle ==
    [authState |-> NoAuth, op |-> OpIdle, lookups |-> <<>>, listening |-> FALSE,
     chainOk |-> TRUE, reported |-> ZeroAddress]

\* no operation of the module is under way
OpOver == au.op.pc = "idle"

\* an operation has settled and its caller has not taken the outcome yet
OpSettled == au.op.pc \in {"resolved", "rejected"}

\* the caller takes the outcome of the operation
OpReturns ==
    /\ OpSettled
    /\ au' = [au EXCEPT !.op = OpIdle]
    /\ cc' = [cc EXCEPT !.call = CallIdle]
    /\ UNCHANGED <<ledgerVars, dl, up, ui, fs>>

\* the operation under way is at pc and the call it awaits has settled
Awaited(name, pc, call) ==
    /\ au.op.name = name
    /\ au.op.pc = pc
    /\ cc.call.op = call
    /\ cc.call.pc \in {"resolved", "rejected"}

Request(op, request) == [op EXCEPT !.requests = Append(@, [request |-> request, answer |-> "pending"])]

Answer(op, answer) == [op EXCEPT !.requests[Len(op.requests)].answer = answer]

Throw(op, cause, error) == [op EXCEPT !.pc = "rejected", !.cause = cause, !.error = error]

\* setupAuthListeners: the accountsChanged and chainChanged listeners are
\* registered with the wallet
setupAuthListeners ==
    /\ ~OpSettled
    /\ cc.ethereum
    /\ ~au.listening
    /\ au' = [au EXCEPT !.listening = TRUE]
    /\ UNCHANGED <<ledgerVars, dl, up, cc, ui, fs>>

\* loginWithWallet up to its first await: without a wallet it throws, else
\* it awaits isCorrectNetwork
loginWithWallet(autoRegister) ==
    /\ OpOver
    /\ LET op == [OpIdle EXCEPT !.name = "loginWithWallet", !.autoRegister = autoRegister] IN
       IF ~isMetaMaskInstalled
       THEN /\ CallOver
            /\ au' = [au EXCEPT !.op = Throw(op, "failure", <<MsgNotInstalled>>)]
            /\ UNCHANGED <<ledgerVars, dl, up, cc, ui, fs>>
       ELSE /\ WalletQuery("isCorrectNetwork")
            /\ au' = [au EXCEPT !.op = Request([op EXCEPT !.pc = "isCorrectNetwork"],
                                               "eth_chainId")]

\* isCorrectNetwork has answered: on the configured chain connectWallet is
\* awaited, else switchToCorrectNetwork, which requests the switch
LoginNetworkChecked ==
    /\ Awaited("loginWithWallet", "isCorrectNetwork", "isCorrectNetwork")
    /\ IF cc.call.value
       THEN /\ connectWallet
            /\ au' = [au EXCEPT !.op = Request([Answer(au.op, "match") EXCEPT
                                                    !.pc = "connectWallet"],
                                               "eth_requestAccounts")]
       ELSE /\ au' = [au EXCEPT !.op = Request([Answer(au.op, "mismatch") EXCEPT
                                                    !.pc = "wallet_switchEthereumChain"],
                                               "wallet_switchEthereumChain")]
            /\ UNCHANGED <<ledgerVars, dl, up, cc, ui, fs>>

\* differs from SwitchRejects: the chain is added on any failure of the switch
SwitchRejects_AddsOnAnyError(code) ==
    /\ au.op.pc = "wallet_switchEthereumChain"
    /\ au' = [au EXCEPT !.op = Request([Answer(au.op, ToString(code)) EXCEPT
                                            !.pc = "wallet_addEthereumChain"],
                                       "wallet_addEthereumChain")]
    /\ UNCHANGED <<ledgerVars, dl, up, cc, ui, fs>>

\* the switch succeeds: the wallet is on the configured chain, connectWallet
\* is awaited
SwitchResolves ==
    /\ au.op.pc = "wallet_switchEthereumChain"
    /\ connectWallet
    /\ au' = [au EXCEPT !.chainOk = TRUE,
                        !.op = Request([Answer(au.op, "ok") EXCEPT !.pc = "connectWallet"],
                                       "eth_requestAccounts")]

\* the switch fails: when the wallet does not know the chain (4902) the chain
\* is added, any other error is rethrown and loginWithWallet throws its own
SwitchRejects(code) ==
    /\ au.op.pc = "wallet_switchEthereumChain"
    /\ IF code = UnrecognizedChain
       THEN au' = [au EXCEPT !.op = Request([Answer(au.op, ToString(code)) EXCEPT
                                                 !.pc = "wallet_addEthereumChain"],
                                            "wallet_addEthereumChain")]
       ELSE au' = [au EXCEPT !.op = Throw(Answer(au.op, ToString(code)),
                                          IF code = UserRejectedRequest THEN "declined"
                                          ELSE "failure",
                                          <<MsgSwitchNetwork>>)]
    /\ UNCHANGED <<ledgerVars, dl, up, cc, ui, fs>>

\* the chain is added and selected: connectWallet is awaited
AddChainResolves ==
    /\ au.op.pc = "wallet_addEthereumChain"
    /\ connectWallet
    /\ au' = [au EXCEPT !.chainOk = TRUE,
                        !.op = Request([Answer(au.op, "ok") EXCEPT !.pc = "connectWallet"],
                                       "eth_requestAccounts")]

\* adding the chain fails: loginWithWallet throws its own error
AddChainRejects(code) ==
    /\ au.op.pc = "wallet_addEthereumChain"
    /\ au' = [au EXCEPT !.op = Throw(Answer(au.op, ToString(code)),
                                     IF code = UserRejectedRequest THEN "declined"
                                     ELSE "failure",
                                     <<MsgSwitchNetwork>>)]
    /\ UNCHANGED <<ledgerVars, dl, up, cc, ui, fs>>

\* eth_requestAccounts of the login is declined by the user
LoginAccountsDeclined ==
    /\ au.op.pc = "connectWallet"
    /\ RequestAccountsRejects
    /\ au' = [au EXCEPT !.op = Answer([au.op EXCEPT !.cause = "declined"],
                                      ToString(UserRejectedRequest))]

\* eth_requestAccounts fails otherwise: connectWallet rethrows the error
LoginAccountsFail ==
    /\ au.op.pc = "connectWallet"
    /\ cc.call.op = "connectWallet"
    /\ cc.call.pc = "requestAccounts"
    /\ cc' = [cc EXCEPT !.call = [cc.call EXCEPT !.pc = "rejected", !.failed = TRUE,
                                      !.error = <<MsgRpc>>]]
    /\ au' = [au EXCEPT !.op = Answer([au.op EXCEPT !.cause = "failure"], "-32603")]
    /\ UNCHANGED <<ledgerVars, dl, up, ui, fs>>

\* connectWallet has settled: its error is thrown on, or getUserId of the
\* address is awaited
LoginConnected ==
    /\ Awaited("loginWithWallet", "connectWallet", "connectWallet")
    /\ IF cc.call.pc = "rejected"
       THEN /\ au' = [au EXCEPT !.op = Throw(au.op, au.op.cause, cc.call.error)]
            /\ UNCHANGED <<ledgerVars, dl, up, cc, ui, fs>>
       ELSE /\ client_getUserId("getUserId", cc.call.value)
            /\ au' = [au EXCEPT !.op = Request([Answer(au.op, "ok") EXCEPT
                                                    !.pc = "getUserId",
                                                    !.address = cc.call.value],
                                               "getUserId")]

\* getUserId has settled: its error is thrown on; an unregistered wallet is
\* registered under the generated ID when autoRegister is set; else
\* authState is replaced
LoginUserId ==
    /\ Awaited("loginWithWallet", "getUserId", "getUserId")
    /\ IF cc.call.pc = "rejected"
       THEN /\ au' = [au EXCEPT !.op = Throw(Answer(au.op, "failed"), "failure",
                                             cc.call.error)]
            /\ UNCHANGED <<ledgerVars, dl, up, cc, ui, fs>>
       ELSE IF BytesLen(cc.call.value) = 0 /\ au.op.autoRegister
       THEN /\ client_registerUser(generatedId(au.op.address))
            /\ au' = [au EXCEPT !.op = Request([Answer(au.op, "ok") EXCEPT
                                                    !.pc = "registerUser",
                                                    !.userId = generatedId(au.op.address)],
                                               "registerUser")]
       ELSE /\ au' = [au EXCEPT !.authState = Authenticated(au.op.address, cc.call.value),
                                !.reported = ZeroAddress,
                                !.op = [Answer(au.op, "ok") EXCEPT !.pc = "resolved",
                                                                   !.userId = cc.call.value]]
            /\ UNCHANGED <<ledgerVars, dl, up, cc, ui, fs>>

\* registerUser has settled: its error is thrown on, else authState is
\* replaced, with the generated ID
LoginRegistered ==
    /\ Awaited("loginWithWallet", "registerUser", "registerUser")
    /\ IF cc.call.pc = "rejected"
       THEN au' = [au EXCEPT !.op = Throw(Answer(au.op, "failed"), "failure", cc.call.error)]
       ELSE au' = [au EXCEPT !.authState = Authenticated(au.op.address, au.op.userId),
                             !.reported = ZeroAddress,
                             !.op = [Answer(au.op, "ok") EXCEPT !.pc = "resolved"]]
    /\ UNCHANGED <<ledgerVars, dl, up, cc, ui, fs>>

\* registerNewUser up to its first await: it throws without a wallet address
\* in authState or with a blank user ID, else it awaits isUserRegistered
registerNewUser(userId) ==
    /\ OpOver
    /\ LET op == [OpIdle EXCEPT !.name = "registerNewUser", !.userId = userId] IN
       IF au.authState.walletAddress = "null"
       THEN /\ CallOver
            /\ au' = [au EXCEPT !.op = Throw(op, "failure", <<MsgConnectFirst>>)]
            /\ UNCHANGED <<ledgerVars, dl, up, cc, ui, fs>>
       ELSE IF BytesLen(userId) = 0 \/ BytesLen(trim(userId)) = 0
       THEN /\ CallOver
            /\ au' = [au EXCEPT !.op = Throw(op, "failure", <<MsgInvalidUserId>>)]
            /\ UNCHANGED <<ledgerVars, dl, up, cc, ui, fs>>
       ELSE /\ client_getUserId("isUserRegistered", au.authState.walletAddress)
            /\ au' = [au EXCEPT !.op = Request([op EXCEPT !.pc = "isUserRegistered",
                                                          !.address = au.authState.walletAddress],
                                               "isUserRegistered")]

\* isUserRegistered has answered: a registered wallet is refused, else
\* registerUser is awaited
RegisterChecked ==
    /\ Awaited("registerNewUser", "isUserRegistered", "isUserRegistered")
    /\ IF cc.call.value
       THEN /\ au' = [au EXCEPT !.op = Throw(Answer(au.op, "registered"), "failure",
                                             <<MsgAlreadyRegistered>>)]
            /\ UNCHANGED <<ledgerVars, dl, up, cc, ui, fs>>
       ELSE /\ client_registerUser(trim(au.op.userId))
            /\ au' = [au EXCEPT !.op = Request([Answer(au.op, "unregistered") EXCEPT
                                                    !.pc = "registerUser"],
                                               "registerUser")]

\* registerUser has settled: its error is thrown on, else the user ID is
\* assigned to the authState of that moment
RegisterDone ==
    /\ Awaited("registerNewUser", "registerUser", "registerUser")
    /\ IF cc.call.pc = "rejected"
       THEN au' = [au EXCEPT !.op = Throw(Answer(au.op, "failed"), "failure", cc.call.error)]
       ELSE au' = [au EXCEPT !.authState.userId = trim(au.op.userId),
                             !.reported = ZeroAddress,
                             !.op = [Answer(au.op, "ok") EXCEPT !.pc = "resolved"]]
    /\ UNCHANGED <<ledgerVars, dl, up, cc, ui, fs>>

\* checkAuthStatus up to its first await, getConnectedAddress
checkAuthStatus ==
    /\ OpOver
    /\ WalletQuery("getConnectedAddress")
    /\ au' = [au EXCEPT !.op = Request([OpIdle EXCEPT !.name = "checkAuthStatus",
                                                      !.pc = "getConnectedAddress"],
                                       "eth_accounts")]

\* getConnectedAddress has answered: without an address authState is
\* cleared, else getUserId of the address is awaited
CheckAddress ==
    /\ Awaited("checkAuthStatus", "getConnectedAddress", "getConnectedAddress")
    /\ IF cc.call.value = "null"
       THEN /\ au' = [au EXCEPT !.authState = NoAuth,
                                !.reported = ZeroAddress,
                                !.op = [Answer(au.op, "none") EXCEPT !.pc = "resolved"]]
            /\ UNCHANGED <<ledgerVars, dl, up, cc, ui, fs>>
       ELSE /\ client_getUserId("getUserId", cc.call.value)
            /\ au' = [au EXCEPT !.op = Request([Answer(au.op, "ok") EXCEPT
                                                    !.pc = "getUserId",
                                                    !.address = cc.call.value],
                                               "getUserId")]

\* getUserId has settled: its error is thrown on, else authState is replaced
CheckUserId ==
    /\ Awaited("checkAuthStatus", "getUserId", "getUserId")
    /\ IF cc.call.pc = "rejected"
       THEN au' = [au EXCEPT !.op = Throw(Answer(au.op, "failed"), "failure", cc.call.error)]
       ELSE au' = [au EXCEPT !.authState = Authenticated(au.op.address, cc.call.value),
                             !.reported = ZeroAddress,
                             !.op = [Answer(au.op, "ok") EXCEPT !.pc = "resolved",
                                                                !.userId = cc.call.value]]
    /\ UNCHANGED <<ledgerVars, dl, up, cc, ui, fs>>

\* logout of walletAuth.js: disconnectWallet, and authState is replaced
auth_logout ==
    /\ ~OpSettled
    /\ logout
    /\ au' = [au EXCEPT !.authState = NoAuth, !.reported = ZeroAddress]

\* the wallet reports another account.  With the listener registered its
\* handler runs up to the await of getUserId(accounts[0]), which makes the
\* read contract when there is none
AccountsChangedEvent(account) ==
    /\ ~OpSettled
    /\ IF au.listening
       THEN /\ cc.ethereum
            /\ account # cc.account
            /\ Len(au.lookups) < MaxLookups
            /\ cc' = [cc EXCEPT !.account = account,
                                !.provider = getProvider,
                                !.contractInstance = IF @ = "null" THEN getProvider ELSE @,
                                !.call = IF CallOver THEN @ ELSE [@ EXCEPT !.switched = TRUE]]
            /\ au' = [au EXCEPT !.lookups = Append(@, account), !.reported = account]
            /\ UNCHANGED <<ledgerVars, dl, up, ui, fs>>
       ELSE /\ accountsChanged(account)
            /\ UNCHANGED au

\* the wallet reports no account (locked or disconnected): the handler of
\* the listener calls logout
AccountsChangedEmpty ==
    /\ ~OpSettled
    /\ au.listening
    /\ logout
    /\ au' = [au EXCEPT !.authState = NoAuth, !.reported = ZeroAddress]

\* the lookup of a handler answers, in any order: authState is replaced
LookupResolves(i) ==
    /\ ~OpSettled
    /\ i \in 1..Len(au.lookups)
    /\ au' = [au EXCEPT !.authState = Authenticated(au.lookups[i], getUserId(au.lookups[i])),
                        !.lookups = SubSeq(@, 1, i - 1) \o SubSeq(@, i + 1, Len(@))]
    /\ UNCHANGED <<ledgerVars, dl, up, cc, ui, fs>>

\* the lookup of a handler fails: the handler ends with it
LookupRejects(i) ==
    /\ ~OpSettled
    /\ i \in 1..Len(au.lookups)
    /\ au' = [au EXCEPT !.lookups = SubSeq(@, 1, i - 1) \o SubSeq(@, i + 1, Len(@)),
                        !.reported = IF i = Len(au.lookups) THEN ZeroAddress ELSE @]
    /\ UNCHANGED <<ledgerVars, dl, up, cc, ui, fs>>

\* the wallet reports another chain.  With the listener registered the page
\* is reloaded: every module starts anew, the listeners are gone until
\* setupAuthListeners runs again; the wallet and the ledger keep their state
ChainChangedEvent ==
    /\ cc.ethereum
    /\ au.op.pc \notin {"resolved", "rejected", "wallet_switchEthereumChain",
                          "wallet_addEthereumChain"}
    /\ IF au.listening
       THEN /\ cc' = [CcIdle EXCEPT !.ethereum = cc.ethereum, !.account = cc.account,
                                    !.pending = cc.pending]
            /\ au' = [AuIdle EXCEPT !.chainOk = ~au.chainOk]
       ELSE /\ au' = [au EXCEPT !.chainOk = ~au.chainOk]
            /\ UNCHANGED cc
    /\ UNCHANGED <<ledgerVars, dl, up, ui, fs>>

(***************************************************************************)
(* The user dashboard over the ledger: components/UploadFile.jsx,          *)
(* FileList.jsx and DeleteFile.jsx of dashboards that are open on the same *)
(* user ID with the wallet that owns it.  fs holds, for each dashboard,    *)
(* the list FileList fetched last, the file selected in UploadFile and the *)
(* upload or delete under way; a write runs the function of the contract   *)
(* when it is mined, and the dashboards go on once the transaction is      *)
(* over.  Each dashboard uploads a content of its own.                     *)
(***************************************************************************)
MaxListed == 2

Sessions == {1, 2}

SessionWallet == "A"

SessionUserId == Str("a", 1)

NoFile == File(EmptyStr, EmptyStr, 0)

\* no upload and no delete under way
NoCall ==
    [fn |-> "none", pc |-> "idle", selected |-> EmptyStr, returned |-> EmptyStr,
     cid |-> EmptyStr, name |-> EmptyStr, index |-> 0, row |-> NoFile, result |-> "none",
     record |-> NoFile]

\* the record a transaction has added to the list, NoFile when it added none
Created(before, after) ==
    IF Len(after) = Len(before) + 1 /\ SubSeq(after, 1, Len(before)) = before
    THEN after[Len(after)]
    ELSE NoFile

\* the record a transaction has taken off the list, NoFile when it took none:
\* the one record of the list before that the list after has one less of
Removed(before, after) ==
    LET Count(files, f) == Cardinality({ i \in 1..Len(files) : files[i] = f })
        gone == { before[i] : i \in { j \in 1..Len(before) :
                                       Count(after, before[j]) < Count(before, before[j]) } }
    IN IF Len(after) + 1 = Len(before) /\ Cardinality(gone) = 1
       THEN CHOOSE f \in gone : TRUE
       ELSE NoFile

\* FileList is mounted and fetches, nothing is selected
SessionIdle == [files |-> <<>>, loading |-> TRUE, selectedFile |-> EmptyStr, call |-> NoCall]

\* getFiles answers: the list of the ledger is shown, each row with its index
session_FetchFilesResolves(s) ==
    /\ tx.op = "none"
    /\ fs[s].loading
    /\ fs' = [fs EXCEPT ![s].files = getFiles(SessionUserId), ![s].loading = FALSE]
    /\ UNCHANGED <<ledgerVars, dl, up, cc, ui, au>>

\* getFiles fails: the rows fetched before stay
session_FetchFilesRejects(s) ==
    /\ tx.op = "none"
    /\ fs[s].loading
    /\ fs' = [fs EXCEPT ![s].loading = FALSE]
    /\ UNCHANGED <<ledgerVars, dl, up, cc, ui, au>>

\* handleFileSelect: the input is disabled while an upload runs
session_handleFileSelect(s, name) ==
    /\ tx.op = "none"
    /\ fs[s].call.fn \notin {"uploadToIpfs", "uploadFile"}
    /\ fs' = [fs EXCEPT ![s].selectedFile = name]
    /\ UNCHANGED <<ledgerVars, dl, up, cc, ui, au>>

\* handleUpload up to the await of uploadToIpfs(selectedFile)
session_handleUpload(s) ==
    /\ tx.op = "none"
    /\ fs[s].call.fn = "none"
    /\ fs[s].selectedFile # EmptyStr
    /\ Len(getFiles(SessionUserId)) < MaxListed
    /\ fs' = [fs EXCEPT ![s].call = [NoCall EXCEPT !.fn = "uploadToIpfs", !.pc = "await",
                                                   !.selected = fs[s].selectedFile]]
    /\ UNCHANGED <<ledgerVars, dl, up, cc, ui, au>>

\* differs from session_UploadToIpfsResolves: the metadata takes the file
\* name where the content ID belongs
session_UploadToIpfsResolves_NameAsCid(s, cid) ==
    /\ tx.op = "none"
    /\ fs[s].call.fn = "uploadToIpfs"
    /\ fs' = [fs EXCEPT ![s].call = [@ EXCEPT !.fn = "uploadFile", !.pc = "sent",
                                              !.returned = cid,
                                              !.cid = fs[s].selectedFile,
                                              !.name = fs[s].selectedFile]]
    /\ UNCHANGED <<ledgerVars, dl, up, cc, ui, au>>

\* uploadToIpfs returns the content ID: uploadFileMetadata(userId, cid,
\* selectedFile.name) sends the write
session_UploadToIpfsResolves(s, cid) ==
    /\ tx.op = "none"
    /\ fs[s].call.fn = "uploadToIpfs"
    /\ fs' = [fs EXCEPT ![s].call = [@ EXCEPT !.fn = "uploadFile", !.pc = "sent",
                                              !.returned = cid,
                                              !.cid = cid,
                                              !.name = fs[s].selectedFile]]
    /\ UNCHANGED <<ledgerVars, dl, up, cc, ui, au>>

\* uploadToIpfs throws: the catch block shows the error, nothing is sent
session_UploadToIpfsRejects(s) ==
    /\ tx.op = "none"
    /\ fs[s].call.fn = "uploadToIpfs"
    /\ fs' = [fs EXCEPT ![s].call = NoCall]
    /\ UNCHANGED <<ledgerVars, dl, up, cc, ui, au>>

\* the write is refused before it reaches the ledger (the user declines, the
\* node is not reached): the catch block shows the error
session_WriteRejects(s) ==
    /\ tx.op = "none"
    /\ fs[s].call.fn \in {"uploadFile", "deleteFile"}
    /\ fs[s].call.pc = "sent"
    /\ fs' = [fs EXCEPT ![s].call = NoCall]
    /\ UNCHANGED <<ledgerVars, dl, up, cc, ui, au>>

\* the write of the upload is mined
session_MineUploadFile(s) ==
    /\ fs[s].call.fn = "uploadFile"
    /\ fs[s].call.pc = "sent"
    /\ uploadFile(SessionWallet, SessionUserId, fs[s].call.cid, fs[s].call.name)
    /\ fs' = [fs EXCEPT ![s].call = [@ EXCEPT !.pc = "mined", !.result = status',
                                              !.record = Created(getFiles(SessionUserId),
                                                                 userFiles'[SessionUserId])]]
    /\ UNCHANGED <<cc, au>>

\* uploadFileMetadata is over: with success the selection is cleared and
\* onUploadComplete makes FileList fetch again, else the error is shown
session_UploadSettles(s) ==
    /\ tx.op = "none"
    /\ fs[s].call.fn = "uploadFile"
    /\ fs[s].call.pc = "mined"
    /\ fs' = IF fs[s].call.result = "ok"
             THEN [fs EXCEPT ![s].call = NoCall, ![s].selectedFile = EmptyStr,
                             ![s].loading = TRUE]
             ELSE [fs EXCEPT ![s].call = NoCall]
    /\ UNCHANGED <<ledgerVars, dl, up, cc, ui, au>>

\* handleConfirmDelete of the DeleteFile of row i up to the await of
\* deleteFile(userId, fileIndex): fileIndex is the index the row was fetched with
session_handleConfirmDelete(s, i) ==
    /\ tx.op = "none"
    /\ fs[s].call.fn = "none"
    /\ ~fs[s].loading
    /\ i \in 1..Len(fs[s].files)
    /\ fs' = [fs EXCEPT ![s].call = [NoCall EXCEPT !.fn = "deleteFile", !.pc = "sent",
                                                   !.index = i - 1,
                                                   !.row = fs[s].files[i]]]
    /\ UNCHANGED <<ledgerVars, dl, up, cc, ui, au>>

\* the write of the delete is mined
session_MineDeleteFile(s) ==
    /\ fs[s].call.fn = "deleteFile"
    /\ fs[s].call.pc = "sent"
    /\ deleteFile(SessionWallet, SessionUserId, fs[s].call.index)
    /\ fs' = [fs EXCEPT ![s].call = [@ EXCEPT !.pc = "mined", !.result = status',
                                              !.record = Removed(getFiles(SessionUserId),
                                                                 userFiles'[SessionUserId])]]
    /\ UNCHANGED <<cc, au>>

\* deleteFile is over: with success handleDeleteComplete makes FileList
\* fetch again, else the error is shown on the row
session_DeleteSettles(s) ==
    /\ tx.op = "none"
    /\ fs[s].call.fn = "deleteFile"
    /\ fs[s].call.pc = "mined"
    /\ fs' = IF fs[s].call.result = "ok"
             THEN [fs EXCEPT ![s].call = NoCall, ![s].loading = TRUE]
             ELSE [fs EXCEPT ![s].call = NoCall]
    /\ UNCHANGED <<ledgerVars, dl, up, cc, ui, au>>

Init ==
    /\ userIds = [w \in Addresses |-> EmptyStr]
    /\ userFiles = [h \in UserIdInputs |-> <<>>]
    /\ userIdToWallet = [h \in UserIdInputs |-> ZeroAddress]
    /\ blockTimestamp = 1
    /\ tx = NoTx
    /\ status = "ok"
    /\ logs = <<>>
    /\ pre = [userIds |-> [w \in Addresses |-> EmptyStr],
              userFiles |-> [h \in UserIdInputs |-> <<>>],
              userIdToWallet |-> [h \in UserIdInputs |-> ZeroAddress]]
    /\ ret = NoRet
    /\ dl = DlIdle
    /\ up = UpIdle
    /\ cc = CcIdle
    /\ ui = UiIdle
    /\ au = AuIdle
    /\ fs = [s \in Sessions |-> SessionIdle]

\* the page is loaded in a browser with a wallet, or in one without
InitClient ==
    /\ userIds = [w \in Addresses |-> EmptyStr]
    /\ userFiles = [h \in UserIdInputs |-> <<>>]
    /\ userIdToWallet = [h \in UserIdInputs |-> ZeroAddress]
    /\ blockTimestamp = 1
    /\ tx = NoTx
    /\ status = "ok"
    /\ logs = <<>>
    /\ pre = Storage
    /\ ret = NoRet
    /\ dl = DlIdle
    /\ up = UpIdle
    /\ cc \in { [CcIdle EXCEPT !.ethereum = e] : e \in BOOLEAN }
    /\ ui = UiIdle
    /\ au = AuIdle
    /\ fs = [s \in Sessions |-> SessionIdle]

\* the ledger on its own: the client takes no step
Next ==
    \/ \E sender \in Wallets, userId \in UserIdInputs :
           registerUser(sender, userId) /\ UNCHANGED <<cc, au, fs>>
    \/ \E sender \in Wallets, userId \in UserIdInputs, cid \in CidInputs, name \in NameInputs :
           uploadFile(sender, userId, cid, name) /\ UNCHANGED <<cc, au, fs>>
    \/ \E sender \in Wallets, userId \in UserIdInputs, index \in 0..MaxFiles :
           deleteFile(sender, userId, index) /\ UNCHANGED <<cc, au, fs>>
    \/ EndTransaction /\ UNCHANGED <<cc, au, fs>>
    \/ NewBlock /\ UNCHANGED <<cc, au, fs>>

Spec == Init /\ [][Next]_vars

NextDownload ==
    \/ \E cfg \in GatewayInputs, fileName \in FileNameInputs : downloadFromIpfs(cfg, fileName)
    \/ \E st \in StatusInputs : FetchResponds(st)
    \/ FetchFails
    \/ FetchTimeout
    \/ BlobResolves
    \/ BlobRejects

SpecDownload == Init /\ [][NextDownload]_vars

\* the timer of fetchWithTimeout fires when it is armed; no gateway is obliged to answer
SpecDownloadFair == Init /\ [][NextDownload]_vars /\ WF_vars(FetchTimeout)

\* the ledger with the calls of its view functions
NextViews ==
    \/ \E sender \in Wallets, userId \in UserIdInputs :
           registerUser(sender, userId) /\ UNCHANGED <<cc, au, fs>>
    \/ \E sender \in Wallets, userId \in UserIdInputs, cid \in CidInputs, name \in NameInputs :
           uploadFile(sender, userId, cid, name) /\ UNCHANGED <<cc, au, fs>>
    \/ \E sender \in Wallets, userId \in UserIdInputs, index \in 0..MaxFiles :
           deleteFile(sender, userId, index) /\ UNCHANGED <<cc, au, fs>>
    \/ EndTransaction /\ UNCHANGED <<cc, au, fs>>
    \/ \E sender \in Addresses, userId \in UserIdInputs : getFilesCall(sender, userId)
    \/ \E sender \in Addresses, userId \in UserIdInputs : getFileCountCall(sender, userId)
    \/ \E sender \in Addresses, wallet \in Addresses : getUserIdCall(sender, wallet)
    \/ \E sender \in Addresses, userId \in UserIdInputs : getWalletByUserIdCall(sender, userId)
    \/ \E sender \in Addresses, userId \in UserIdInputs : isUserIdAvailableCall(sender, userId)
    \/ \E sender \in Addresses, wallet \in Addresses : isWalletRegisteredCall(sender, wallet)

SpecViews == Init /\ [][NextViews]_vars

NextUpload ==
    \/ \E cfg \in UploadConfigInputs, file \in FileInputs : uploadToIpfs(cfg, file)
    \/ GetIpfsClientResolves
    \/ GetIpfsClientRejects
    \/ ArrayBufferResolves
    \/ ArrayBufferRejects
    \/ AddResolves
    \/ \E msg \in {"fetch failed", MsgOther} : AddRejects(msg)

SpecUpload == Init /\ [][NextUpload]_vars

NextClient ==
    \/ \E userId \in ClientUserIdInputs : client_registerUser(userId) /\ UNCHANGED au
    \/ \E userId \in ClientUserIdInputs :
           uploadFileMetadata(userId, Str("Q", 1), Str("f", 1)) /\ UNCHANGED au
    \/ \E userId \in ClientUserIdInputs : client_deleteFile(userId, 0) /\ UNCHANGED au
    \/ GetSignerResolves /\ UNCHANGED au
    \/ \E msg \in {MsgUserRejected, MsgRpc} : GetSignerRejects(msg) /\ UNCHANGED au
    \/ SendResolves /\ UNCHANGED au
    \/ \E msg \in {MsgUserRejected, MsgRpc} : SendRejects(msg) /\ UNCHANGED au
    \/ MineRegisterUser /\ UNCHANGED au
    \/ MineUploadFile /\ UNCHANGED au
    \/ MineDeleteFile /\ UNCHANGED au
    \/ WaitReturns /\ UNCHANGED au
    \/ ClientEndTransaction /\ UNCHANGED au
    \/ \E op \in {"getUserId", "isUserRegistered"}, walletAddress \in Wallets :
           client_getUserId(op, walletAddress) /\ UNCHANGED au
    \/ GetUserIdResolves /\ UNCHANGED au
    \/ GetUserIdRejects /\ UNCHANGED au
    \/ \E op \in {"isCorrectNetwork", "getConnectedAddress"} : WalletQuery(op) /\ UNCHANGED au
    \/ \E chainId \in ChainIdInputs : ChainIdResolves(chainId) /\ UNCHANGED au
    \/ \E connected \in BOOLEAN : AccountsResolves(connected) /\ UNCHANGED au
    \/ RequestRejects /\ UNCHANGED au
    \/ connectWallet /\ UNCHANGED au
    \/ RequestAccountsResolves /\ UNCHANGED au
    \/ RequestAccountsRejects /\ UNCHANGED au
    \/ ConnectSignerResolves /\ UNCHANGED au
    \/ logout /\ UNCHANGED au
    \/ \E account \in Wallets : accountsChanged(account) /\ UNCHANGED au

SpecClient == InitClient /\ [][NextClient]_vars

NextUi ==
    \/ \E registered \in BOOLEAN : OpenUserDashboard(registered)
    \/ OpenValuatorDashboard
    \/ handleLogout
    \/ handleRegister
    \/ \E ok \in BOOLEAN : RegisterSettles(ok)
    \/ \E ok \in BOOLEAN : handleFileSelect(ok)
    \/ handleUpload
    \/ UploadToIpfsResolves
    \/ UploadToIpfsRejects
    \/ \E ok \in BOOLEAN : UploadMetadataSettles(ok)
    \/ \E n \in 0..MaxRows : FetchFilesSettles(n)
    \/ \E index \in 0..(MaxRows - 1) : handleDownload(index)
    \/ \E index \in 0..(MaxRows - 1) : DownloadSettles(index)
    \/ \E index \in 0..(MaxRows - 1) : handleDeleteClick(index)
    \/ \E index \in 0..(MaxRows - 1) : handleCancelDelete(index)
    \/ \E index \in 0..(MaxRows - 1) : handleConfirmDelete(index)
    \/ \E index \in 0..(MaxRows - 1), ok \in BOOLEAN : DeleteSettles(index, ok)
    \/ handleSearch
    \/ \E ok \in BOOLEAN : SearchSettles(ok)
    \/ handleClearSearch

SpecUi == Init /\ [][NextUi]_vars

NextAuth ==
    \/ \E autoRegister \in BOOLEAN : loginWithWallet(autoRegister)
    \/ \E chainId \in ChainIdInputs :
           (chainId = ChainId) = au.chainOk /\ ChainIdResolves(chainId) /\ UNCHANGED au
    \/ RequestRejects /\ UNCHANGED au
    \/ LoginNetworkChecked
    \/ SwitchResolves
    \/ \E code \in ErrorCodeInputs : SwitchRejects(code)
    \/ AddChainResolves
    \/ \E code \in ErrorCodeInputs \ {UnrecognizedChain} : AddChainRejects(code)
    \/ RequestAccountsResolves /\ UNCHANGED au
    \/ LoginAccountsDeclined
    \/ LoginAccountsFail
    \/ ConnectSignerResolves /\ UNCHANGED au
    \/ LoginConnected
    \/ GetUserIdResolves /\ UNCHANGED au
    \/ GetUserIdRejects /\ UNCHANGED au
    \/ LoginUserId
    \/ GetSignerResolves /\ UNCHANGED au
    \/ GetSignerRejects(MsgRpc) /\ UNCHANGED au
    \/ SendResolves /\ UNCHANGED au
    \/ SendRejects(MsgUserRejected) /\ UNCHANGED au
    \/ MineRegisterUser /\ UNCHANGED au
    \/ WaitReturns /\ UNCHANGED au
    \/ ClientEndTransaction /\ UNCHANGED au
    \/ LoginRegistered
    \/ \E userId \in RegisterUserIdInputs : registerNewUser(userId)
    \/ RegisterChecked
    \/ RegisterDone
    \/ checkAuthStatus
    \/ \E connected \in BOOLEAN : AccountsResolves(connected) /\ UNCHANGED au
    \/ CheckAddress
    \/ CheckUserId
    \/ auth_logout
    \/ \E account \in Wallets : AccountsChangedEvent(account)
    \/ ChainChangedEvent
    \/ OpReturns

SpecAuth == InitClient /\ [][NextAuth]_vars

NextListeners ==
    \/ setupAuthListeners
    \/ \E wallet \in Wallets, userId \in ClientUserIdInputs :
           registerUser(wallet, userId) /\ UNCHANGED <<cc, au, fs>>
    \/ EndTransaction /\ UNCHANGED <<cc, au, fs>>
    \/ \E account \in Wallets : AccountsChangedEvent(account)
    \/ AccountsChangedEmpty
    \/ \E i \in 1..MaxLookups : LookupResolves(i)
    \/ \E i \in 1..MaxLookups : LookupRejects(i)
    \/ ChainChangedEvent

SpecListeners == Init /\ [][NextListeners]_vars

NextSessions ==
    \/ registerUser(SessionWallet, SessionUserId) /\ UNCHANGED <<cc, au, fs>>
    \/ EndTransaction /\ UNCHANGED <<cc, au, fs>>
    \/ \E s \in Sessions : session_FetchFilesResolves(s)
    \/ \E s \in Sessions : session_FetchFilesRejects(s)
    \/ \E s \in Sessions, name \in {Str("f", 1)} : session_handleFileSelect(s, name)
    \/ \E s \in Sessions : session_handleUpload(s)
    \/ \E s \in Sessions : session_UploadToIpfsResolves(s, Str("Q", s))
    \/ \E s \in Sessions : session_UploadToIpfsRejects(s)
    \/ \E s \in Sessions : session_WriteRejects(s)
    \/ \E s \in Sessions : session_MineUploadFile(s)
    \/ \E s \in Sessions : session_UploadSettles(s)
    \/ \E s \in Sessions, i \in 1..MaxListed : session_handleConfirmDelete(s, i)
    \/ \E s \in Sessions : session_MineDeleteFile(s)
    \/ \E s \in Sessions : session_DeleteSettles(s)

SpecSessions == Init /\ [][NextSessions]_vars

(***************************************************************************)
(* Properties of the ledger.                                               *)
(***************************************************************************)
Handles == UserIdInputs \ {EmptyStr}

\* the number of slots of a list that hold record r
Count(files, r) == Cardinality({ j \in 1..Len(files) : files[j] = r })

\* the records that can be stored
Records == { File(c, n, t) : c \in CidInputs, n \in NameInputs, t \in 0..(MaxTime + 1) }

\* C1: the identity/handle binding is a bijection: getUserId(w) = h for a
\* non-empty h exactly when getWalletByUserId(h) = w, and no two identities
\* share a handle.
C1_BindingIsBijection ==
    /\ \A w \in Wallets, h \in Handles :
           (getUserId(w) = h) <=> (getWalletByUserId(h) = w)
    /\ \A w1, w2 \in Wallets :
           (getUserId(w1) = getUserId(w2) /\ getUserId(w1) # EmptyStr) => w1 = w2

\* the last call registered the second identity under another handle
C1_Witness ==
    /\ \A w \in Wallets : isWalletRegistered(w)
    /\ getUserId("A") # getUserId("B")
    /\ \E w \in Wallets : pre.userIds[w] = EmptyStr /\ tx.sender = w
                          /\ tx.op = "registerUser" /\ status = "ok"
                          /\ \E v \in Wallets \ {w} : pre.userIds[v] # EmptyStr

\* C2: uploadFile or deleteFile on a handle bound to A, sent by B # A, fails
\* with the not-authorized error and changes nothing.
C2_NotOwnerRejected ==
    ( /\ tx.op \in {"uploadFile", "deleteFile"}
      /\ pre.userIdToWallet[tx.userId] # ZeroAddress
      /\ pre.userIdToWallet[tx.userId] # tx.sender )
    => (status = ErrNotAuthorized /\ Storage = pre)

\* B, registered under another handle, tries to delete a record of A's list
C2_Witness ==
    /\ tx.op = "deleteFile"
    /\ pre.userIdToWallet[tx.userId] \in Wallets \ {tx.sender}
    /\ pre.userIds[tx.sender] # EmptyStr
    /\ tx.index < Len(pre.userFiles[tx.userId])
    /\ status = ErrNotAuthorized

\* C3: a successful deleteFile(h, i) is swap-and-pop: the list is one shorter,
\* slot i holds the former last record, every other surviving slot is as it
\* was, and the record of slot i is the only one removed.
C3_SwapAndPop ==
    (tx.op = "deleteFile" /\ status = "ok") =>
        LET old == pre.userFiles[tx.userId]
            new == userFiles[tx.userId]
            n == Len(old)
            i == tx.index + 1
        IN /\ Len(new) = n - 1
           /\ (i < n => new[i] = old[n])
           /\ \A j \in 1..(n - 1) : j # i => new[j] = old[j]
           /\ \A r \in Records : Count(new, r) = Count(old, r) - (IF r = old[i] THEN 1 ELSE 0)

\* index 0 of [F0, F1, F2] is deleted and the list is [F2, F1], not [F1, F2]
C3_Witness ==
    /\ tx.op = "deleteFile" /\ status = "ok" /\ tx.index = 0
    /\ Len(pre.userFiles[tx.userId]) = 3
    /\ \A i, j \in 1..3 : i # j => pre.userFiles[tx.userId][i] # pre.userFiles[tx.userId][j]
    /\ userFiles[tx.userId] = << pre.userFiles[tx.userId][3], pre.userFiles[tx.userId][2] >>

\* C4: once an identity is bound to a handle, no step changes the binding in
\* either direction.
C4_BindingIsPermanent ==
    [][ \A w \in Wallets :
            userIds[w] # EmptyStr =>
                (userIds'[w] = userIds[w] /\ userIdToWallet'[userIds[w]] = w) ]_vars

\* a registered identity called registerUser again, and another identity
\* asked for its handle
C4_Witness ==
    /\ tx.op = "registerUser"
    /\ pre.userIds[tx.sender] # EmptyStr
    /\ tx.userId # pre.userIds[tx.sender]
    /\ validUserId(tx.userId) = "ok"
    /\ userIds[tx.sender] = pre.userIds[tx.sender]

C6_MustFail ==
    \/ /\ tx.op = "registerUser"
       /\ \/ validUserId(tx.userId) # "ok"
          \/ pre.userIds[tx.sender] # EmptyStr
          \/ pre.userIdToWallet[tx.userId] # ZeroAddress
    \/ /\ tx.op = "uploadFile"
       /\ \/ pre.userIds[tx.sender] # tx.userId
          \/ tx.cid = EmptyStr
          \/ tx.name = EmptyStr
    \/ /\ tx.op = "deleteFile"
       /\ \/ pre.userIds[tx.sender] # tx.userId
          \/ tx.index >= Len(pre.userFiles[tx.userId])

\* C6: every failing call leaves the bindings and every file list as before.
C6_FailureIsAtomic ==
    /\ C6_MustFail => status # "ok"
    /\ (tx.op # "none" /\ status # "ok") => Storage = pre

\* the owner of a non-empty list sent an upload with an empty name
C6_Witness ==
    /\ tx.op = "uploadFile" /\ status = ErrEmptyName
    /\ pre.userIds[tx.sender] = tx.userId
    /\ Len(pre.userFiles[tx.userId]) > 0

\* C7: a successful uploadFile appends {cid, name, block timestamp of the
\* transaction} at the last index and changes nothing else.
C7_UploadAppends ==
    (tx.op = "uploadFile" /\ status = "ok") =>
        /\ userFiles[tx.userId] =
               Append(pre.userFiles[tx.userId], File(tx.cid, tx.name, tx.timestamp))
        /\ \A h \in UserIdInputs \ {tx.userId} : userFiles[h] = pre.userFiles[h]
        /\ userIds = pre.userIds
        /\ userIdToWallet = pre.userIdToWallet

\* an upload in a later block onto a non-empty list, another list being non-empty
C7_Witness ==
    /\ tx.op = "uploadFile" /\ status = "ok"
    /\ Len(pre.userFiles[tx.userId]) > 0
    /\ pre.userFiles[tx.userId][1].timestamp # tx.timestamp
    /\ userFiles[tx.userId][Len(userFiles[tx.userId])].timestamp = tx.timestamp
    /\ \E h \in UserIdInputs \ {tx.userId} : Len(userFiles[h]) > 0

\* C8: deleteFile sent by the owner fails with invalid-index iff the index is
\* at or beyond the length, succeeds below it, and deleting the last index
\* removes the last record and moves none.
C8_DeleteIndexBounds ==
    (tx.op = "deleteFile" /\ pre.userIds[tx.sender] = tx.userId) =>
        LET old == pre.userFiles[tx.userId]
        IN /\ (status = ErrInvalidIndex) <=> (tx.index >= Len(old))
           /\ (tx.index < Len(old)) => status = "ok"
           /\ (tx.index + 1 = Len(old)) => userFiles[tx.userId] = SubSeq(old, 1, Len(old) - 1)

\* the owner deleted the last index of a list of two or more records
C8_Witness ==
    /\ tx.op = "deleteFile" /\ status = "ok"
    /\ Len(pre.userFiles[tx.userId]) >= 2
    /\ tx.index + 1 = Len(pre.userFiles[tx.userId])
    /\ userFiles[tx.userId] = SubSeq(pre.userFiles[tx.userId], 1, tx.index)

\* the owner sent deleteFile on an empty list
C8_WitnessEmpty ==
    /\ tx.op = "deleteFile" /\ status = ErrInvalidIndex
    /\ pre.userIds[tx.sender] = tx.userId
    /\ pre.userFiles[tx.userId] = <<>>

(***************************************************************************)
(* Properties of downloadFromIpfs.                                         *)
(***************************************************************************)
\* the messages with which a candidate fails
FailureMessages == { MsgHttp(st) : st \in StatusInputs } \cup { MsgTransport, MsgAborted, MsgBody }

\* msg contains sub
Contains(msg, sub) ==
    \E i \in 1..(Len(msg) - Len(sub) + 1) : SubSeq(msg, i, i + Len(sub) - 1) = sub

\* the candidates are requested in list order, one at a time, each after the
\* failure of all earlier ones
C9_InOrderOneAtATime ==
    /\ dl.gateways = <<dl.gateways[1]>>
                       \o SelectSeq(FALLBACK_GATEWAYS, LAMBDA g : g # dl.gateways[1])
    /\ \A i, j \in 1..Len(dl.gateways) : i # j => dl.gateways[i] # dl.gateways[j]
    /\ dl.requests = SubSeq(dl.gateways, 1, Len(dl.requests))
    /\ Cardinality(dl.inflight) <= 1
    /\ \A j \in 1..(Len(dl.requests) - 1) : dl.outcomes[j] \in FailureMessages

\* C9 as stated: candidates are requested in order, each only after every
\* earlier one failed, at most one in flight, each at most once, and none after
\* a candidate has returned an HTTP-success response.
C9_NoRequestAfterHttpSuccess ==
    dl.pc # "idle" =>
        /\ C9_InOrderOneAtATime
        /\ \A j \in dl.httpOk : j = Len(dl.requests)

\* C9 amended: as above, but none is requested after a candidate whose
\* HTTP-success response was read to the end and saved; a candidate whose body
\* cannot be read has failed and the next one is requested.
C9_NoRequestAfterSave ==
    dl.pc # "idle" =>
        /\ C9_InOrderOneAtATime
        /\ \A j \in 1..Len(dl.requests) : dl.outcomes[j] = <<"ok">> => j = Len(dl.requests)
        /\ dl.saves # <<>> => (dl.pc = "resolved" /\ dl.outcomes[Len(dl.requests)] = <<"ok">>)

\* the third candidate was saved after the first answered 200 with an
\* unreadable body and the second failed; the fourth was never requested
C9_Witness ==
    /\ dl.pc = "resolved"
    /\ Len(dl.requests) = 3
    /\ Len(dl.gateways) > 3
    /\ dl.httpOk = {1, 3}
    /\ dl.inflight = {}

\* C10: the call rejects iff every candidate failed; then nothing was saved and
\* the message of the rejection contains the message of the last candidate's
\* failure; when it resolves exactly one save was triggered.
C10_RejectsIffAllFailed ==
    dl.pc # "idle" =>
        /\ (dl.pc = "rejected") <=>
               ( /\ Len(dl.outcomes) = Len(dl.gateways)
                 /\ \A j \in 1..Len(dl.outcomes) : dl.outcomes[j] \in FailureMessages )
        /\ dl.pc = "rejected" =>
               ( /\ dl.saves = <<>>
                 /\ Contains(dl.error, dl.outcomes[Len(dl.outcomes)]) )
        /\ dl.pc = "resolved" => dl.saves = <<dl.fileName>>

\* every candidate failed, the last one in another way than the first
C10_Witness ==
    /\ dl.pc = "rejected"
    /\ Len(dl.requests) = Len(dl.gateways)
    /\ dl.outcomes[1] = MsgAborted
    /\ dl.outcomes[Len(dl.outcomes)] = MsgHttp(404)
    /\ dl.error = AggregateMessage(Error(MsgHttp(404)))

\* C11: every downloadFromIpfs call terminates: an attempt that is under way
\* ends within the timeout, also when the body never arrives, so the call
\* resolves or rejects.
C11_DownloadTerminates ==
    (dl.pc \in {"fetch", "blob"}) ~> (dl.pc \in {"resolved", "rejected"})

(***************************************************************************)
(* Properties of the view functions.                                       *)
(***************************************************************************)

\* C14: a read of a user's files changes no state and succeeds for any caller;
\* a read that directly follows another read of the same user's files, by
\* whatever caller, returns what that one returned, and the count returned by
\* getFileCount is the length of the list returned by getFiles.
C14_ReadsArePure ==
    [][ tx'.op \in FileViews =>
          /\ status' = "ok"
          /\ <<userIds', userFiles', userIdToWallet'>> = <<userIds, userFiles, userIdToWallet>>
          /\ (tx.op = tx'.op /\ tx.userId = tx'.userId) => ret'.value = ret.value
          /\ (tx.op = "getFiles" /\ tx'.op = "getFileCount" /\ tx.userId = tx'.userId)
                 => ret'.value = Len(ret.value)
          /\ (tx.op = "getFileCount" /\ tx'.op = "getFiles" /\ tx.userId = tx'.userId)
                 => Len(ret'.value) = ret.value ]_vars

\* an address that is not the owner reads, right after another read, the files
\* of a user who has stored some
C14_Witness ==
    /\ tx.op = "getFiles"
    /\ ret.repeated
    /\ Len(ret.value) >= 2
    /\ pre.userIdToWallet[tx.userId] \in Wallets
    /\ tx.sender # pre.userIdToWallet[tx.userId]
    /\ pre.userIds[tx.sender] = EmptyStr

\* the wallets bound to the user ID h
BoundTo(h) == { w \in Wallets : userIdToWallet[h] = w }

\* C15: a read never fails and returns the sentinel for an unknown key: no
\* files and the count 0 for a user ID that was never registered, the empty
\* user ID and false for a wallet no user ID is bound to, the zero address and
\* true for a user ID no wallet is bound to; isUserIdAvailable(h) iff no wallet
\* is bound to h, and isWalletRegistered(w) iff getUserId(w) is not empty.
C15_ReadsReturnSentinels ==
    /\ tx.op \in ViewOps => status = "ok"
    /\ (tx.op = "getFiles" /\ BoundTo(tx.userId) = {}) => ret.value = <<>>
    /\ (tx.op = "getFileCount" /\ BoundTo(tx.userId) = {}) => ret.value = 0
    /\ (tx.op = "getUserId" /\ ~\E h \in UserIdInputs : tx.wallet \in BoundTo(h))
           => ret.value = EmptyStr
    /\ (tx.op = "isWalletRegistered" /\ ~\E h \in UserIdInputs : tx.wallet \in BoundTo(h))
           => ret.value = FALSE
    /\ (tx.op = "getWalletByUserId" /\ BoundTo(tx.userId) = {}) => ret.value = ZeroAddress
    /\ (tx.op = "isUserIdAvailable" /\ BoundTo(tx.userId) = {}) => ret.value = TRUE
    /\ \A h \in UserIdInputs : isUserIdAvailable(h) <=> BoundTo(h) = {}
    /\ \A w \in Addresses : isWalletRegistered(w) <=> getUserId(w) # EmptyStr

\* C15 without the files of a user ID that was never registered
C15_SentinelsButFiles ==
    /\ tx.op \in ViewOps => status = "ok"
    /\ (tx.op = "getUserId" /\ ~\E h \in UserIdInputs : tx.wallet \in BoundTo(h))
           => ret.value = EmptyStr
    /\ (tx.op = "isWalletRegistered" /\ ~\E h \in UserIdInputs : tx.wallet \in BoundTo(h))
           => ret.value = FALSE
    /\ (tx.op = "getWalletByUserId" /\ BoundTo(tx.userId) = {}) => ret.value = ZeroAddress
    /\ (tx.op = "isUserIdAvailable" /\ BoundTo(tx.userId) = {}) => ret.value = TRUE
    /\ \A h \in UserIdInputs : isUserIdAvailable(h) <=> BoundTo(h) = {}
    /\ \A w \in Addresses : isWalletRegistered(w) <=> getUserId(w) # EmptyStr
    /\ (tx.op = "getFiles" /\ BoundTo(tx.userId) = {} /\ tx.userId # EmptyStr)
           => ret.value = <<>>
    /\ (tx.op = "getFileCount" /\ BoundTo(tx.userId) = {} /\ tx.userId # EmptyStr)
           => ret.value = 0

(***************************************************************************)
(* Properties of uploadToIpfs.                                             *)
(***************************************************************************)

\* the file is larger than the maximum that is configured
Oversize == up.config.maxFileSize # 0 /\ up.file.size > up.config.maxFileSize

\* types are restricted and the type of the file is none of them
TypeNotAllowed ==
    /\ up.config.allowedFileTypes # {}
    /\ fileType(up.file) \notin up.config.allowedFileTypes

\* C13: a call with a file larger than the configured maximum, or of a type
\* outside a non-empty list of allowed types, is rejected and has asked
\* nothing of the content store; so has every call rejected by the validation.
C13_ValidationBeforeNetwork ==
    up.pc # "idle" =>
        /\ (Oversize \/ TypeNotAllowed) => (up.pc = "rejected" /\ up.calls = <<>>)
        /\ (up.pc = "rejected" /\ Len(up.error) = 2 /\ up.error[2] \in {MsgSize, MsgType})
               => up.calls = <<>>
        /\ "add" \in { up.calls[i] : i \in 1..Len(up.calls) }
               => ~(Oversize \/ TypeNotAllowed)

\* a file of an allowed size is rejected for its type, without demo mode
C13_Witness ==
    /\ up.pc = "rejected"
    /\ ~Oversize
    /\ TypeNotAllowed
    /\ up.file.type = "image/png"
    /\ ~up.config.useDemoMode
    /\ up.calls = <<>>

(***************************************************************************)
(* Properties of the chain client and the registry client.                 *)
(***************************************************************************)

\* C12: a client write called while an account is selected in the wallet, and
\* sent while it still is, is signed for that account, whatever signer or
\* contract was cached before the account was selected.
C12_WritesUseActiveAccount ==
    (cc.ethereum /\ cc.call.op \in Writes /\ cc.call.pc = "wait" /\ ~cc.call.switched)
        => cc.call.signer.address = cc.account

\* C16: a client write resolves only in a step that finds its transaction
\* mined with success and its effect in the storage; it rejects when the
\* transaction is refused or reverted; once it is over nothing it sent is
\* pending.
C16_WritesWaitForFinality ==
    [][ /\ (cc'.call.op \in Writes /\ cc'.call.pc = "resolved" /\ cc.call.pc # "resolved")
               => /\ tx.op = ContractFunction(cc'.call.op)
                  /\ tx.sender = cc'.call.signer.address
                  /\ tx.userId = cc'.call.userId
                  /\ status = "ok"
                  /\ tx.op = "registerUser" => userIdToWallet[tx.userId] = tx.sender
                  /\ tx.op = "uploadFile" =>
                         Len(userFiles[tx.userId]) = Len(pre.userFiles[tx.userId]) + 1
                  /\ tx.op = "deleteFile" =>
                         Len(userFiles[tx.userId]) = Len(pre.userFiles[tx.userId]) - 1
        /\ (cc'.call.op \in Writes /\ cc'.call.pc \in {"resolved", "rejected"})
               => cc'.pending = NoTx
        /\ (cc.call.op \in Writes /\ cc.call.pc = "wait" /\ cc'.call.pc # "wait"
                /\ status # "ok")
               => cc'.call.pc = "rejected"
        /\ (cc.call.op \in Writes /\ cc.call.pc \in {"getSigner", "send"}
                /\ cc'.call.pc \in {"resolved", "rejected"})
               => cc'.call.pc = "rejected" ]_vars

\* a delete has resolved on its mined transaction
C16_Witness ==
    /\ cc.call.op = "deleteFile"
    /\ cc.call.pc = "resolved"
    /\ tx.op = "deleteFile"
    /\ tx.sender = cc.call.signer.address
    /\ status = "ok"
    /\ cc.pending = NoTx

\* an upload was rejected because its transaction reverted
C16_WitnessReverted ==
    /\ cc.call.op = "uploadFileMetadata"
    /\ cc.call.pc = "rejected"
    /\ tx.op = "uploadFile"
    /\ status = ErrNotAuthorized

\* C17: without an injected wallet no signer and no signing contract exists,
\* no transaction is sent, and every client write is rejected.
C17_NoSignerWithoutWallet ==
    ~cc.ethereum =>
        /\ cc.signer = NoSigner
        /\ cc.contractWithSigner = NoSigner
        /\ cc.pending = NoTx
        /\ (cc.call.op \in Writes /\ CallOver) => cc.call.pc = "rejected"

\* C18: an operation whose ledger read or provider request failed is rejected;
\* so isUserRegistered, isCorrectNetwork and getConnectedAddress return false
\* or null only as the answer of a call that succeeded.
C18_NoFailureSwallowed ==
    (cc.call.failed /\ CallOver) => cc.call.pc = "rejected"

(***************************************************************************)
(* Properties of the dashboards.                                           *)
(***************************************************************************)

\* C19: the dashboard of one user never has two ledger writes (register,
\* upload metadata, delete) in flight at the same time.
C19_OneWriteInFlight == Cardinality({ w \in ui.inflight : w.session }) <= 1

\* C20: a valuator session issues no call of registerUser, uploadFile or
\* deleteFile: all it issues is getFileCount, getFiles and downloads, none of
\* them through the contract with signer, and no row asks to confirm a delete.
C20_ValuatorOnlyReads ==
    ui.page = "valuator" =>
        /\ \A c \in ui.issued : c.fn \in {"getFileCount", "getFiles", "download"} /\ ~c.signer
        /\ \A i \in 0..(MaxRows - 1) : ~ui.rows[i].confirmDelete /\ ~ui.rows[i].deleting

\* a valuator has counted, listed and downloaded the files of a user
C20_Witness ==
    /\ ui.page = "valuator"
    /\ ui.currentUserId
    /\ ui.files >= 1
    /\ { c.fn : c \in ui.issued } = {"getFileCount", "getFiles", "download"}

(***************************************************************************)
(* Properties of the events and of the ownership of the file lists.        *)
(***************************************************************************)

\* C24: a successful registerUser, uploadFile or deleteFile emits exactly one
\* event, UserRegistered(caller, user ID), FileUploaded(caller, user ID, cid,
\* name), FileDeleted(caller, user ID, index passed to the call); a failed
\* call and a read emit none.
C24_OneEventPerSuccess ==
    /\ (tx.op \in {"registerUser", "uploadFile", "deleteFile"} /\ status # "ok") => logs = <<>>
    /\ tx.op \in ViewOps => logs = <<>>
    /\ (tx.op = "registerUser" /\ status = "ok") =>
           logs = << [event |-> "UserRegistered", wallet |-> tx.sender,
                      userId |-> tx.userId] >>
    /\ (tx.op = "uploadFile" /\ status = "ok") =>
           logs = << [event |-> "FileUploaded", owner |-> tx.sender, userId |-> tx.userId,
                      cid |-> tx.cid, name |-> tx.name] >>
    /\ (tx.op = "deleteFile" /\ status = "ok") =>
           logs = << [event |-> "FileDeleted", owner |-> tx.sender, userId |-> tx.userId,
                      index |-> tx.index] >>

\* a record that was not the last one was deleted and the event says which
C24_Witness ==
    /\ tx.op = "deleteFile"
    /\ status = "ok"
    /\ tx.index = 0
    /\ Len(pre.userFiles[tx.userId]) >= 2
    /\ Len(logs) = 1
    /\ logs[1].index = 0

\* C26: every user ID with files is bound to a wallet, and no upload or
\* delete of a caller without a user ID succeeds, whatever the user ID,
\* the empty one included.
C26_FilesHaveAnOwner ==
    /\ \A h \in UserIdInputs : userFiles[h] # <<>> => userIdToWallet[h] \in Wallets
    /\ (tx.op \in {"uploadFile", "deleteFile"} /\ pre.userIds[tx.sender] = EmptyStr)
           => status # "ok"

\* C21: when the user declines a prompt of the wallet (account access or
\* network switch) loginWithWallet fails with the error reserved for a
\* declined request, and no other failure carries that error.
C21_DeclineIsDistinct ==
    (au.op.name = "loginWithWallet" /\ au.op.pc = "rejected") =>
        (au.op.cause = "declined" <=> au.op.error = <<MsgConnectionRejected>>)

\* C22: wallet_addEthereumChain is requested only right after a
\* wallet_switchEthereumChain answered with code 4902; any other failure of
\* the switch and any failure of the add ends loginWithWallet with an error
\* and no further request; eth_requestAccounts and the ledger calls are made
\* only after the chain matched or the switch or the add succeeded.
C22_SwitchThenAddThenConnect ==
    LET q == au.op.requests IN
    au.op.name = "loginWithWallet" =>
        /\ \A i \in 1..Len(q) :
               q[i].request = "wallet_addEthereumChain" =>
                   /\ i > 1
                   /\ q[i - 1].request = "wallet_switchEthereumChain"
                   /\ q[i - 1].answer = ToString(UnrecognizedChain)
        /\ \A i \in 1..Len(q) :
               q[i].request = "wallet_switchEthereumChain" =>
                   /\ i > 1
                   /\ q[i - 1] = [request |-> "eth_chainId", answer |-> "mismatch"]
        /\ \A i \in 1..Len(q) :
               \/ /\ q[i].request = "wallet_switchEthereumChain"
                  /\ q[i].answer \notin {"pending", "ok", ToString(UnrecognizedChain)}
               \/ /\ q[i].request = "wallet_addEthereumChain"
                  /\ q[i].answer \notin {"pending", "ok"}
               => (i = Len(q) /\ au.op.pc = "rejected" /\ au.op.error # <<>>)
        /\ \A i \in 1..Len(q) :
               q[i].request \in {"eth_requestAccounts", "getUserId", "registerUser"} =>
                   \E j \in 1..(i - 1) :
                       \/ q[j] = [request |-> "eth_chainId", answer |-> "match"]
                       \/ /\ q[j].request \in {"wallet_switchEthereumChain",
                                                "wallet_addEthereumChain"}
                          /\ q[j].answer = "ok"

C22_Witness ==
    /\ au.op.name = "loginWithWallet"
    /\ au.op.pc = "resolved"
    /\ \E i \in 1..Len(au.op.requests) :
           au.op.requests[i] = [request |-> "wallet_addEthereumChain", answer |-> "ok"]
    /\ \E i \in 1..Len(au.op.requests) :
           au.op.requests[i] = [request |-> "registerUser", answer |-> "ok"]

\* C23: every step in which the wallet goes to another chain outside a
\* switch the login asked for leaves the client reset: authState cleared,
\* no lookup of a listener left, no provider, no signer, neither contract.
C23_NetworkChangeResets ==
    [][(au'.chainOk # au.chainOk
        /\ au.op.pc \notin {"wallet_switchEthereumChain", "wallet_addEthereumChain"}) =>
           /\ au'.authState = NoAuth
           /\ au'.lookups = <<>>
           /\ cc'.provider = "null"
           /\ cc'.signer = NoSigner
           /\ cc'.contractInstance = "null"
           /\ cc'.contractWithSigner = NoSigner]_vars

\* C28: when loginWithWallet, registerNewUser or checkAuthStatus has
\* completed and authState is authenticated with a user ID, the ledger binds
\* the wallet address of authState to exactly that user ID.
C28_AuthStateMatchesLedger ==
    (au.op.pc = "resolved" /\ au.authState.isAuthenticated /\ au.authState.userId # Null) =>
        /\ au.authState.walletAddress \in Wallets
        /\ getUserId(au.authState.walletAddress) = au.authState.userId

\* C29: once every handler of the accountsChanged listener has completed,
\* authState holds the account reported last and no user ID of another
\* account.
C29_LastReportedAccountWins ==
    (au.lookups = <<>> /\ au.reported \in Wallets) =>
        /\ au.authState.walletAddress = au.reported
        /\ au.authState.userId \in {Null, OrNull(getUserId(au.reported))}

\* C30: whenever authState is not authenticated, its wallet address and its
\* user ID are null.
C30_LoggedOutHoldsNothing ==
    ~au.authState.isAuthenticated =>
        (au.authState.walletAddress = "null" /\ au.authState.userId = Null)

\* C25: the write of an upload is sent only once uploadToIpfs has returned
\* a content ID and carries that ID and the name of the selected file; when
\* uploadToIpfs fails the upload ends with no write and the ledger as it
\* was; a write that succeeds adds the record of that ID and name, a write
\* that fails adds none.
C25_MetadataAfterContent ==
    /\ [](\A s \in Sessions :
             fs[s].call.fn = "uploadFile" =>
                 /\ fs[s].call.returned # EmptyStr
                 /\ fs[s].call.cid = fs[s].call.returned
                 /\ fs[s].call.name = fs[s].call.selected
                 /\ fs[s].call.name # EmptyStr)
    /\ [](\A s \in Sessions :
             (fs[s].call.fn = "uploadFile" /\ fs[s].call.pc = "mined") =>
                 IF fs[s].call.result = "ok"
                 THEN /\ fs[s].call.record.cid = fs[s].call.returned
                      /\ fs[s].call.record.name = fs[s].call.selected
                 ELSE fs[s].call.record = NoFile)
    /\ [][\A s \in Sessions :
             (fs[s].call.fn = "uploadToIpfs" /\ fs'[s].call.fn # "uploadToIpfs") =>
                 \/ fs'[s].call.fn = "uploadFile" /\ fs'[s].call.pc = "sent"
                 \/ /\ fs'[s].call = NoCall
                    /\ \A t \in Sessions \ {s} : fs'[t] = fs[t]
                    /\ UNCHANGED <<userFiles, tx>>]_vars

C25_Witness ==
    \E s \in Sessions :
        /\ fs[s].call.fn = "uploadFile"
        /\ fs[s].call.pc = "mined"
        /\ fs[s].call.result = "ok"
        /\ fs[s].call.record = File(Str("Q", s), Str("f", 1), blockTimestamp)
        /\ Len(getFiles(SessionUserId)) = 2

\* C27: a delete sent from a row of a dashboard either takes that row's
\* record off the list or fails with the invalid-index error.
C27_DeleteTakesTheClickedRow ==
    \A s \in Sessions :
        (fs[s].call.fn = "deleteFile" /\ fs[s].call.pc = "mined") =>
            IF fs[s].call.result = "ok"
            THEN fs[s].call.record = fs[s].call.row
            ELSE fs[s].call.result = ErrInvalidIndex
====
